---- MODULE Spec2Model ----
(***************************************************************************)
(* KVM-over-USB client: the serial controller (ControllerCh9329), the      *)
(* command dispatcher (ControllerEventWorker on its own QThread) and the   *)
(* keyboard key buffer driven by MyMainWindow.                             *)
(*                                                                         *)
(* The specifications share the variables:                                 *)
(*   SpecCtl    the controller object under any sequence of method calls   *)
(*   Spec       the main thread submitting commands to the worker thread   *)
(*   SpecKb     the key buffer under press / release / clear               *)
(*   SpecModifiers the key buffer under all eight modifier keys           *)
(*   SpecAbs    pointer motion in absolute mode over viewport geometries   *)
(*   SpecRel    pointer motion, buttons and the report timer in relative   *)
(*              mode                                                       *)
(*   SpecMouse  wheel, buttons and the report timer                        *)
(*   SpecInput  key and mouse events with the worker executing them        *)
(*   SpecString keyboard_send_string and the indicator keys                *)
(*   SpecReply  indicator refreshes and the replies of the worker          *)
(*   SpecReload device checks, reloads and the replies of the worker       *)
(*   SpecRelease keys and buttons held and a release of the devices        *)
(*   SpecWheel  wheel reports and the report timer in relative mode        *)
(*   SpecPauseKeys, SpecPauseMouse  input paused and resumed between       *)
(*              events                                                     *)
(*   SpecHotKey the Ctrl+Alt hot keys between key events                   *)
(*   SpecConverge lock key taps, keyboard_read and the remote locks        *)
(***************************************************************************)
EXTENDS Integers, Sequences, FiniteSets, TLC

\* ------------------------------------------------------------------ bounds
MaxHandles == 2       \* distinct Serial objects told apart
MaxCommands == 3      \* commands submitted in one behaviour
NumRegularKeys == 7   \* distinct non-modifier HID codes the user can press
MaxPixel == 8         \* largest pointer coordinate in the window

\* --------------------------------------------------------------- constants
None == 0             \* self.connection = None
KeyCap == 6           \* regular keys of one keyboard report
FunctionKeyCap == 8   \* modifier keys of one keyboard report

Handles == 1..MaxHandles
Ports == {"", "COM1"}
WriteOutcomes == {"ok", "error"}
ReadOutcomes == {"ok", "nak", "error"}
InfoOutcomes == {"ok", "invalid_encoding", "chip_error", "error"}
ReleaseTypes == {"mouse", "keyboard", "all", "any", "other"}

\* The lists handed to keyboard_send_data: 1..n for a few lengths.
KeyList(n) == [i \in 1..n |-> i]
KeyLists == {KeyList(0), KeyList(KeyCap), KeyList(KeyCap + 1)}
FunctionKeyLists == {KeyList(0), KeyList(FunctionKeyCap + 1)}

NoSent == [keys |-> <<>>, function_keys |-> <<>>]

\* ---------------------------------------------------- ControllerCh9329
\* A controller state c is [port, connection, open]: the configured port,
\* the handle held in self.connection (None or a Serial object) and the set
\* of Serial objects whose port is open.  An operation yields the new
\* connection and open set, what it returned, whether an exception left
\* it, and the trace of lock and handle events it performed in order.

Ret(c, ret, raised, trace) ==
    [connection |-> c.connection, open |-> c.open, ret |-> ret,
     raised |-> raised, trace |-> trace, sent |-> NoSent]

\* Serial(...) builds a new object, distinct from every open one and from
\* the one self.connection still names.
FreshHandles(c) == Handles \ (c.open \cup {c.connection})

FreshHandle(c) ==
    CHOOSE h \in FreshHandles(c) : \A g \in FreshHandles(c) : h <= g

close_connection(c) ==
    [connection |-> None, open |-> c.open \ {c.connection}, ret |-> "None",
     raised |-> FALSE, sent |-> NoSent,
     trace |-> <<"lock">>
               \o (IF c.connection # None THEN <<"close">> ELSE <<>>)
               \o <<"unlock">>]

create_connection_no_close(c, outcome) ==
    IF c.port = ""
    THEN Ret(c, "False", FALSE, <<>>)
    ELSE IF outcome = "ok" /\ FreshHandles(c) # {}
         THEN [connection |-> FreshHandle(c),
               open |-> c.open \cup {FreshHandle(c)},
               ret |-> "True", raised |-> FALSE, sent |-> NoSent,
               trace |-> <<"lock", "open", "unlock">>]
         ELSE [connection |-> None, open |-> c.open,
               ret |-> "False", raised |-> FALSE, sent |-> NoSent,
               trace |-> <<"lock", "open", "unlock">>]

create_connection(c, outcome) ==
    IF c.port = ""
    THEN Ret(c, "False", FALSE, <<>>)
    ELSE LET closed == IF c.connection # None
                       THEN close_connection(c)
                       ELSE Ret(c, "None", FALSE, <<>>)
             c1 == [port |-> c.port, connection |-> closed.connection,
                    open |-> closed.open]
             pre == IF c.connection # None THEN closed.trace ELSE <<>>
         IN IF outcome = "ok" /\ FreshHandles(c) # {}
            THEN [connection |-> FreshHandle(c),
                  open |-> c1.open \cup {FreshHandle(c)},
                  ret |-> "True", raised |-> FALSE, sent |-> NoSent,
                  trace |-> pre \o <<"lock", "open", "unlock">>]
            ELSE [connection |-> None, open |-> c1.open,
                  ret |-> "False", raised |-> FALSE, sent |-> NoSent,
                  trace |-> pre \o <<"lock", "open", "unlock">>]

reset_connection(c, outcome) ==
    LET closed == close_connection(c)
        c1 == [port |-> c.port, connection |-> closed.connection,
               open |-> closed.open]
        created == create_connection(c1, outcome)
    IN [created EXCEPT !.ret = "None",
                       !.trace = closed.trace \o created.trace]

check_connection(c) ==
    IF c.connection = None
    THEN Ret(c, "False", FALSE, <<"lock", "unlock">>)
    ELSE Ret(c, IF c.connection \in c.open THEN "True" ELSE "False", FALSE,
             <<"lock", "is_open", "unlock">>)

\* The guard every locked protocol operation starts with: the operation's
\* early return value when the connection is None or its port is closed.
Unavailable(c) == c.connection = None \/ c.connection \notin c.open

GuardTrace(c) ==
    IF c.connection = None THEN <<"lock", "unlock">>
    ELSE <<"lock", "is_open", "unlock">>

product_info(c, outcome) ==
    IF Unavailable(c) THEN Ret(c, "", FALSE, GuardTrace(c))
    ELSE CASE outcome = "ok" ->
                Ret(c, "product", FALSE,
                    <<"lock", "is_open", "write", "read", "unlock">>)
           [] outcome = "invalid_encoding" ->
                Ret(c, "Invalid string", FALSE,
                    <<"lock", "is_open", "write", "read", "unlock">>)
           [] outcome = "chip_error" ->
                Ret(c, "Unknown error", FALSE,
                    <<"lock", "is_open", "write", "read", "unlock">>)
           [] OTHER ->
                Ret(c, "None", TRUE,
                    <<"lock", "is_open", "write", "unlock">>)

restore_factory_settings(c, outcome) ==
    IF Unavailable(c) THEN Ret(c, "False", FALSE, GuardTrace(c))
    ELSE Ret(c, "None", outcome # "ok",
             <<"lock", "is_open", "write", "unlock">>)

reset_controller(c, outcome) ==
    IF Unavailable(c) THEN Ret(c, "False", FALSE, GuardTrace(c))
    ELSE Ret(c, "None", outcome # "ok",
             <<"lock", "is_open", "write", "unlock">>)

mouse_send_data_unguarded(c, relative, outcome) ==
    Ret(c, "None", outcome # "ok", <<"lock", "write", "unlock">>)

mouse_send_data(c, relative, outcome) ==
    IF Unavailable(c) THEN Ret(c, "False", FALSE, GuardTrace(c))
    ELSE Ret(c, "None", outcome # "ok",
             <<"lock", "is_open", "write", "unlock">>)

Untruncated(s, n) == s

Truncate(s, n) == IF Len(s) > n THEN SubSeq(s, 1, n) ELSE s

keyboard_send_data(c, keys, function_keys, outcome) ==
    IF Unavailable(c) THEN Ret(c, "False", FALSE, GuardTrace(c))
    ELSE [connection |-> c.connection, open |-> c.open,
          ret |-> IF outcome = "ok" THEN "True" ELSE "None",
          raised |-> outcome # "ok",
          trace |-> <<"lock", "is_open", "write", "unlock">>,
          sent |-> [keys |-> Truncate(keys, KeyCap),
                    function_keys |->
                        Truncate(function_keys, FunctionKeyCap)]]

keyboard_receive_status(c, outcome) ==
    IF Unavailable(c) THEN Ret(c, "(False, {})", FALSE, GuardTrace(c))
    ELSE CASE outcome = "ok" ->
                Ret(c, "(True, indicators)", FALSE,
                    <<"lock", "is_open", "write", "read", "unlock">>)
           [] outcome = "nak" ->
                Ret(c, "(False, {})", FALSE,
                    <<"lock", "is_open", "write", "read", "unlock">>)
           [] OTHER ->
                Ret(c, "None", TRUE,
                    <<"lock", "is_open", "write", "unlock">>)

\* release takes no lock and tests only for None.  "all" and "any" release
\* the mouse, then the keyboard; the second write is not reached when the
\* first raises.
release(c, release_type, outcome1, outcome2) ==
    IF c.connection = None THEN Ret(c, "None", FALSE, <<>>)
    ELSE CASE release_type \in {"mouse", "keyboard"} ->
                Ret(c, "None", outcome1 # "ok", <<"write">>)
           [] release_type \in {"all", "any"} ->
                IF outcome1 # "ok"
                THEN Ret(c, "None", TRUE, <<"write">>)
                ELSE Ret(c, "None", outcome2 # "ok", <<"write", "write">>)
           [] OTHER -> Ret(c, "None", FALSE, <<>>)


\* --------------------------------------------------------------- state
VARIABLES
    port,         \* ControllerCh9329.port
    connection,   \* ControllerCh9329.connection: None or a handle
    open,         \* the Serial objects whose port is open
    last,         \* the last controller operation: what it saw and did
    queue,        \* events posted to the worker thread, oldest first
    executing,    \* the commands command_send is running
    submitted,    \* names of all commands emitted so far; a command's id
                  \* is its position
    started,      \* ids in the order command_send began them
    executed,     \* ids in the order device_event ran them
    replies,      \* command_reply_signal emissions, in order
    mutex_locked, \* ControllerEventWorker.mutex
    handed,       \* the last buffer command_send passed to device_event,
                  \* with the payload its command was emitted with
    kb_keys,      \* KeyboardKeyBuffer: regular keys, in press order
    kb_mods,      \* KeyboardKeyBuffer: modifier keys held
    kb_last,      \* the last key event: what it was, the buffer it met
                  \* and the size of the snapshot it emitted
    mouse_capture,     \* status "mouse_capture"
    relative_mode,     \* status "relative_mode"
    mouse,             \* MouseStateBuffer: buttons, point, wheel
    mouse_last_pos,    \* MyMainWindow.mouse_last_pos: NoPos or a position
    mouse_need_report, \* MyMainWindow.mouse_need_report
    mouse_last,        \* the last mouse event: what it was and what it met
    view,              \* the viewport geometry and the video configuration
    indicator,         \* KeyboardIndicatorBuffer: the cached lock states
    handled,           \* number of replies controller_command_reply has run
    controller,        \* status "controller": the last device_open reply
                       \* or device_close reply said the port is open
    typed,             \* the last keyboard_send_string (or shortcut_key_send,
                       \* with its key names as the text): its text, the cache
                       \* it met and the key events it made
    refresh,           \* the last sync_keyboard_indicator_buffer: the id of
                       \* its keyboard_read, the cache it met, and whether
                       \* the cache was written since by something else
    status_buffer,     \* status "pause_keyboard", "pause_mouse",
                       \* "quick_paste" and "block_input"
    chip               \* the far end of the serial line: the locks of the
                       \* remote keyboard, the keys its last report had
                       \* down, and what each keyboard_read was answered

ctl_vars == <<port, connection, open, last>>
worker_vars == <<queue, executing, submitted, started, executed, replies,
                 mutex_locked, handed>>
kb_vars == <<kb_keys, kb_mods, kb_last>>
mouse_vars == <<mouse_capture, relative_mode, mouse, mouse_last_pos, mouse_need_report,
                mouse_last>>
app_vars == <<indicator, handled, controller, typed, refresh, status_buffer,
              chip>>
ui_vars == <<mouse_vars, view, app_vars>>
vars == <<port, connection, open, last, queue, executing, submitted,
          started, executed, replies, mutex_locked, handed, kb_keys,
          kb_mods, kb_last, mouse_capture, relative_mode, mouse, mouse_last_pos,
          mouse_need_report, mouse_last, view, indicator, handled,
          controller, typed, refresh, status_buffer, chip>>

Ctl == [port |-> port, connection |-> connection, open |-> open]

NoOp ==
    [op |-> "init", arg |-> "", ret |-> "None", raised |-> FALSE,
     trace |-> <<>>, sent |-> NoSent, given |-> NoSent,
     pre_port |-> "COM1", pre_connection |-> None, pre_available |-> FALSE,
     failed |-> FALSE]

\* The record of one operation op(arg) that started in controller state c,
\* met transport outcomes os and yielded r.
Observed(op, arg, c, os, r, given) ==
    [op |-> op, arg |-> arg, ret |-> r.ret, raised |-> r.raised,
     trace |-> r.trace, sent |-> r.sent, given |-> given,
     pre_port |-> c.port, pre_connection |-> c.connection,
     pre_available |-> ~Unavailable(c),
     failed |-> \E i \in 1..Len(os) : os[i] = "error"]

\* A coordinate of the mouse point is a fraction <<n, d>> in lowest terms
\* with d > 0: a pixel delta in relative mode, a share of the target
\* screen in absolute mode.
Zero == <<0, 1>>
One == <<1, 1>>

\* MouseStateBuffer(): no button, point (0, 0), wheel stopped.
NoMouse == [buttons |-> {}, x |-> Zero, y |-> Zero, wheel |-> "STOP"]

\* mouse_last_pos = None
NoPos == <<>>

NoMouseEvent ==
    [op |-> "init", x_side |-> "in", y_side |-> "in", wheel |-> "STOP",
     sampled |-> <<0, 0>>, seeded |-> FALSE, pos |-> <<0, 0>>,
     cursor |-> <<0, 0>>]

\* The viewport in the window and config.video: no camera yet, a 4 x 3
\* widget, a 4 x 3 source configured, aspect ratio kept, no cursor
\* correction.
InitView ==
    [camera |-> FALSE, x_pos |-> 0, y_pos |-> 0, width |-> 4, height |-> 3,
     resolution_x |-> 4, resolution_y |-> 3, keep_aspect_ratio |-> TRUE,
     correction_cursor |-> FALSE]

\* The buffer of a command emitted with None.  A payload carries the
\* fields of the key buffer or of the mouse buffer it was made from; live
\* names the buffer it refers to when it is the buffer itself, not a copy.
NoPayload ==
    [release_type |-> "", keys |-> <<>>, function_keys |-> <<>>,
     released |-> {}, buttons |-> {}, x |-> Zero, y |-> Zero,
     wheel |-> "STOP", live |-> ""]

NoneHanded == [id |-> 0, buffer |-> NoPayload, enqueued |-> NoPayload]

\* ControllerCh9329.__init__
InitCtl ==
    /\ port = "COM1"
    /\ connection = None
    /\ open = {}
    /\ last = NoOp

\* ControllerEventWorker.__init__: QMutexLocker(self.mutex) locks the mutex
\* when it is built.
InitWorker ==
    /\ queue = <<>>
    /\ executing = {}
    /\ submitted = <<>>
    /\ started = <<>>
    /\ executed = <<>>
    /\ replies = <<>>
    /\ mutex_locked = TRUE
    /\ handed = NoneHanded

\* MyMainWindow.__init__: the mouse buffer and the mouse report state.
InitMouse ==
    /\ mouse_capture = FALSE
    /\ relative_mode = FALSE
    /\ mouse = NoMouse
    /\ mouse_last_pos = NoPos
    /\ mouse_need_report = FALSE
    /\ mouse_last = NoMouseEvent
    /\ view = InitView

NoKeyEvent ==
    [op |-> "init", modifier |-> FALSE, held |-> FALSE, full |-> FALSE,
     snapshot_len |-> 0]

\* KeyboardKeyBuffer()
InitKb ==
    /\ kb_keys = <<>>
    /\ kb_mods = {}
    /\ kb_last = NoKeyEvent

\* KeyboardIndicatorBuffer(): no lock is on.
NoIndicators ==
    [num_lock |-> FALSE, caps_lock |-> FALSE, scroll_lock |-> FALSE]

NoString ==
    [data |-> <<>>, caps_lock |-> FALSE, strokes |-> <<>>, first |-> 1]

NoRefresh ==
    [id |-> 0, before |-> NoIndicators, touched |-> FALSE,
     data |-> NoIndicators]

\* StatusBuffer of MyMainWindow.__init__: input is neither paused nor
\* blocked, quick paste is on.
InitStatus ==
    [pause_keyboard |-> FALSE, pause_mouse |-> FALSE, quick_paste |-> TRUE,
     block_input |-> FALSE]

\* The remote keyboard before the first command: no lock is on, no key
\* down, nothing answered.
InitChip == [locks |-> NoIndicators, down |-> {}, answers |-> <<>>]

\* MyMainWindow.__init__: the indicator cache; no reply was handled, no
\* string sent, no refresh requested.
InitApp ==
    /\ indicator = NoIndicators
    /\ handled = 0
    /\ controller = FALSE
    /\ typed = NoString
    /\ refresh = NoRefresh
    /\ status_buffer = InitStatus
    /\ chip = InitChip

Init == InitCtl /\ InitWorker /\ InitKb /\ InitMouse /\ InitApp

\* The transport outcomes an operation started in state c can meet: none
\* when its guard returns early.
Met(c, os) == IF Unavailable(c) THEN <<>> ELSE os

ReleaseMet(c, t, o1, o2) ==
    IF c.connection = None \/ t = "other" THEN <<>>
    ELSE IF t \in {"all", "any"} /\ o1 = "ok" THEN <<o1, o2>>
    ELSE <<o1>>

\* --------------------------------------- the controller, called directly
Apply(op, arg, os, r, given) ==
    /\ connection' = r.connection
    /\ open' = r.open
    /\ last' = Observed(op, arg, Ctl, os, r, given)

CallSetConnectionParams ==
    \E p \in Ports :
        /\ port' = p
        /\ UNCHANGED <<connection, open, last, worker_vars, kb_vars, ui_vars>>

CallCreateConnection ==
    \E o \in WriteOutcomes :
        /\ Apply("create_connection", "", IF port = "" THEN <<>> ELSE <<o>>, create_connection(Ctl, o),
                 NoSent)
        /\ UNCHANGED <<port, worker_vars, kb_vars, ui_vars>>

CallCloseConnection ==
    /\ Apply("close_connection", "", <<>>, close_connection(Ctl), NoSent)
    /\ UNCHANGED <<port, worker_vars, kb_vars, ui_vars>>

CallResetConnection ==
    \E o \in WriteOutcomes :
        /\ Apply("reset_connection", "", IF port = "" THEN <<>> ELSE <<o>>, reset_connection(Ctl, o),
                 NoSent)
        /\ UNCHANGED <<port, worker_vars, kb_vars, ui_vars>>

CallCheckConnection ==
    /\ Apply("check_connection", "", <<>>, check_connection(Ctl), NoSent)
    /\ UNCHANGED <<port, worker_vars, kb_vars, ui_vars>>

CallProductInfo ==
    \E o \in InfoOutcomes :
        /\ Apply("product_info", "", Met(Ctl, <<o>>), product_info(Ctl, o), NoSent)
        /\ UNCHANGED <<port, worker_vars, kb_vars, ui_vars>>

CallRestoreFactorySettings ==
    \E o \in WriteOutcomes :
        /\ Apply("restore_factory_settings", "", Met(Ctl, <<o>>),
                 restore_factory_settings(Ctl, o), NoSent)
        /\ UNCHANGED <<port, worker_vars, kb_vars, ui_vars>>

CallResetController ==
    \E o \in WriteOutcomes :
        /\ Apply("reset_controller", "", Met(Ctl, <<o>>), reset_controller(Ctl, o),
                 NoSent)
        /\ UNCHANGED <<port, worker_vars, kb_vars, ui_vars>>

CallMouseSendData ==
    \E o \in WriteOutcomes, relative \in BOOLEAN :
        /\ Apply("mouse_send_data",
                 IF relative THEN "relative" ELSE "absolute", Met(Ctl, <<o>>),
                 mouse_send_data(Ctl, relative, o), NoSent)
        /\ UNCHANGED <<port, worker_vars, kb_vars, ui_vars>>

CallKeyboardSendData ==
    \E o \in WriteOutcomes, ks \in KeyLists, fs \in FunctionKeyLists :
        /\ Apply("keyboard_send_data", "", Met(Ctl, <<o>>),
                 keyboard_send_data(Ctl, ks, fs, o),
                 [keys |-> ks, function_keys |-> fs])
        /\ UNCHANGED <<port, worker_vars, kb_vars, ui_vars>>

CallKeyboardReceiveStatus ==
    \E o \in ReadOutcomes :
        /\ Apply("keyboard_receive_status", "", Met(Ctl, <<o>>),
                 keyboard_receive_status(Ctl, o), NoSent)
        /\ UNCHANGED <<port, worker_vars, kb_vars, ui_vars>>

CallRelease ==
    \E t \in ReleaseTypes, o1 \in WriteOutcomes, o2 \in WriteOutcomes :
        /\ Apply("release", t,
                 ReleaseMet(Ctl, t, o1, o2),
                 release(Ctl, t, o1, o2), NoSent)
        /\ UNCHANGED <<port, worker_vars, kb_vars, ui_vars>>

NextCtl ==
    \/ CallSetConnectionParams
    \/ CallCreateConnection
    \/ CallCloseConnection
    \/ CallResetConnection
    \/ CallCheckConnection
    \/ CallProductInfo
    \/ CallRestoreFactorySettings
    \/ CallResetController
    \/ CallMouseSendData
    \/ CallKeyboardSendData
    \/ CallKeyboardReceiveStatus
    \/ CallRelease

SpecCtl == Init /\ [][NextCtl]_vars


Range(q) == {q[i] : i \in 1..Len(q)}

RemoveAt(q, i) == SubSeq(q, 1, i - 1) \o SubSeq(q, i + 1, Len(q))

\* The elements of a set of numbers in increasing order.
RECURSIVE SortedSeq(_)
SortedSeq(S) ==
    IF S = {} THEN <<>>
    ELSE LET m == CHOOSE x \in S : \A y \in S : x <= y
         IN <<m>> \o SortedSeq(S \ {m})

\* ------------------------------------------------------ KeyboardKeyBuffer
\* HID usage codes: letters start at 0x04; 0xE0..0xE7 are the eight
\* modifier keys.  KeyCodes are the keys pressed where every order of the
\* regular keys is explored: 0xE1 (left shift) stands for the modifiers.
RegularKeys == {3 + i : i \in 1..NumRegularKeys}
Modifiers == 224..231
KeyCodes == RegularKeys \cup {225}

\* A buffer b is [keys, released, mods]: the regular keys in press order,
\* those of them marked released and not yet purged, and the modifier mask.
KeyBuffer == [keys |-> kb_keys, released |-> {}, mods |-> kb_mods]

key_press_uncapped(b, code) ==
    IF code \in Modifiers THEN [b EXCEPT !.mods = @ \cup {code}]
    ELSE IF code \in Range(b.keys) THEN b
    ELSE [b EXCEPT !.keys = Append(@, code)]

key_press_again(b, code) ==
    IF code \in Modifiers THEN [b EXCEPT !.mods = @ \cup {code}]
    ELSE IF Len(b.keys) >= KeyCap THEN b
    ELSE [b EXCEPT !.keys = Append(@, code)]

key_press_in_slot(b, code) ==
    IF code \in Range(b.keys) \/ code \in b.mods
          \/ Len(b.keys) >= KeyCap THEN b
    ELSE IF code \in Modifiers
    THEN [b EXCEPT !.mods = @ \cup {code}, !.keys = Append(@, code)]
    ELSE [b EXCEPT !.keys = Append(@, code)]

key_press(b, code) ==
    IF code \in Modifiers THEN [b EXCEPT !.mods = @ \cup {code}]
    ELSE IF code \in Range(b.keys) \/ Len(b.keys) >= KeyCap THEN b
    ELSE [b EXCEPT !.keys = Append(@, code)]

key_release_kept(b, code) == b

key_release(b, code) ==
    IF code \in Modifiers THEN [b EXCEPT !.mods = @ \ {code}]
    ELSE IF code \in Range(b.keys) THEN [b EXCEPT !.released = @ \cup {code}]
    ELSE b

clear_released(b) ==
    [b EXCEPT !.keys = SelectSeq(@, LAMBDA k : k \notin b.released),
              !.released = {}]

clear(b) == [keys |-> <<>>, released |-> {}, mods |-> {}]

dup(b) == b

key_state(b, code) ==
    IF code \in b.mods \/ (code \in Range(b.keys) /\ code \notin b.released)
    THEN "PRESS" ELSE "RELEASE"

\* The record of one key event on buffer b that emitted a keyboard_write
\* carrying snapshot: whether the code is a modifier, whether the buffer
\* held it, whether the buffer held KeyCap regular keys.
KeyEvent(op, code, b, snapshot) ==
    [op |-> op, modifier |-> code \in Modifiers,
     held |-> key_state(b, code) = "PRESS",
     full |-> Len(b.keys) = KeyCap,
     snapshot_len |-> Len(snapshot.keys)]

\* update_keyboard_buffer_with_hid_code(hid_code, state): the buffer
\* operation, the keyboard_write emitted with a copy of the buffer, then
\* clear_released.
update_keyboard_buffer_with_hid_code(code, state) ==
    LET b1 == IF state = "PRESS" THEN key_press(KeyBuffer, code)
              ELSE key_release(KeyBuffer, code)
        b2 == clear_released(b1)
    IN /\ kb_keys' = b2.keys
       /\ kb_mods' = b2.mods
       /\ kb_last' = KeyEvent(state, code, KeyBuffer, dup(b1))

KeyPressed(codes) ==
    \E code \in codes :
        /\ update_keyboard_buffer_with_hid_code(code, "PRESS")
        /\ UNCHANGED <<ctl_vars, worker_vars, ui_vars>>

KeyReleased(codes) ==
    \E code \in codes :
        /\ update_keyboard_buffer_with_hid_code(code, "RELEASE")
        /\ UNCHANGED <<ctl_vars, worker_vars, ui_vars>>

\* keyboard_key_buffer.clear() on the buffer alone, as KeyPressed and
\* KeyReleased.
KeysCleared ==
    LET b1 == clear(KeyBuffer)
    IN /\ kb_keys' = b1.keys
       /\ kb_mods' = b1.mods
       /\ kb_last' = KeyEvent("clear", 0, KeyBuffer, dup(b1))
       /\ UNCHANGED <<ctl_vars, worker_vars, ui_vars>>

NextKb ==
    \/ KeyPressed(KeyCodes)
    \/ KeyReleased(KeyCodes)
    \/ KeysCleared

SpecKb == Init /\ [][NextKb]_vars

\* Every modifier, with the regular keys pressed in the order of their
\* codes, one more than a report holds.
NextModifiers ==
    \/ KeyPressed(Modifiers \cup {4 + Len(kb_keys)})
    \/ KeyReleased(Modifiers \cup {3 + Len(kb_keys)})
    \/ KeysCleared

SpecModifiers == Init /\ [][NextModifiers]_vars

\* ------------------------------------------------------------ fractions
Abs(i) == IF i < 0 THEN -i ELSE i

RECURSIVE GCD(_, _)
GCD(a, b) == IF b = 0 THEN a ELSE GCD(b, a % b)

\* n / d for d > 0, in lowest terms.
Frac(n, d) == LET g == GCD(Abs(n), d) IN <<n \div g, d \div g>>

Plus(f, g) == Frac(f[1] * g[2] + g[1] * f[2], f[2] * g[2])

Times(f, i) == Frac(f[1] * i, f[2])

\* int(round(f)): the nearest integer, a half going to the even one.
Round(f) ==
    LET q == f[1] \div f[2]
        r == f[1] - q * f[2]
    IN IF 2 * r < f[2] THEN q
       ELSE IF 2 * r > f[2] THEN q + 1
       ELSE IF q % 2 = 0 THEN q ELSE q + 1

Unclamped(f) == f

\* max(min(f, 1), 0)
Clamp01(f) ==
    IF f[1] < 0 THEN Zero ELSE IF f[1] > f[2] THEN One ELSE f

\* ------------------------------------------------------ MouseStateBuffer
MouseButtons == {"LEFT_BUTTON"}

set_button(m, code, state) ==
    [m EXCEPT !.buttons = IF state = "PRESS" THEN @ \cup {code}
                          ELSE @ \ {code}]

set_point(m, x, y) == [m EXCEPT !.x = x, !.y = y]

get_point(m) == <<m.x, m.y>>

clear_point(m) == [m EXCEPT !.x = Zero, !.y = Zero]

mouse_buffer_clear(m) == NoMouse

mouse_buffer_dup(m) == m

\* --------------------------------------------------- absolute mouse mode
CursorOffsetX == 1    \* config.mouse["cursor_offset_x"]
CursorOffsetY == 1    \* config.mouse["cursor_offset_y"]

\* The source resolution the mapping uses: the configured one while the
\* camera runs, the size of the placeholder label otherwise.
XRes(v) == IF v.camera THEN v.resolution_x ELSE v.width
YRes(v) == IF v.camera THEN v.resolution_y ELSE v.height

\* x_diff and y_diff as fractions.  finder_scale > cam_scale is
\* height / width > y_res / x_res; all four are positive.
XDiff(v) ==
    IF v.keep_aspect_ratio /\ v.height * XRes(v) < v.width * YRes(v)
    THEN Frac(v.width * YRes(v) - v.height * XRes(v), YRes(v))
    ELSE Zero

YDiff(v) ==
    IF v.keep_aspect_ratio /\ v.height * XRes(v) > v.width * YRes(v)
    THEN Frac(v.height * XRes(v) - v.width * YRes(v), XRes(v))
    ELSE Zero

XPos(v) == IF v.correction_cursor THEN v.x_pos + CursorOffsetX ELSE v.x_pos
YPos(v) == IF v.correction_cursor THEN v.y_pos + CursorOffsetY ELSE v.y_pos

\* (p - diff / 2 - pos) / (size - diff), exactly.  Pixel positions and
\* sizes are integers, so no rounding of the floating-point evaluation can
\* move the quotient across 0 or 1.
Hid(p, pos, size, diff) ==
    Frac(2 * diff[2] * (p - pos) - diff[1],
         2 * (diff[2] * size - diff[1]))

\* update_mouse_position_buffer_with_absolute_mode(x, y): the point stored
\* in the mouse buffer.
AbsolutePoint(v, x, y) ==
    <<Clamp01(Hid(x, XPos(v), v.width, XDiff(v))),
      Clamp01(Hid(y, YPos(v), v.height, YDiff(v)))>>

\* --------------------------------------------------- relative mouse mode
RelativeSpeed == 1        \* config.mouse["relative_speed"]
RecenterThreshold == 25   \* pixels from the middle of the window
MiddlePos == <<0, 0>>     \* cursor positions are taken from the middle
MaxPending == 30          \* motion is sampled while the pending delta and
                          \* the motion since the last report are within
                          \* this on both axes

\* The test before QCursor.setPos(middle_pos).
Far(mouse_pos) ==
    \/ Abs(mouse_pos[1] - MiddlePos[1]) > RecenterThreshold
    \/ Abs(mouse_pos[2] - MiddlePos[2]) > RecenterThreshold

\* update_mouse_position_buffer_with_relative_mode() with the cursor at
\* mouse_pos, and the same with the cursor never put back.
RelativeMove_unrecentered(m, last_pos, mouse_pos) ==
    IF last_pos # NoPos
    THEN LET rel_x == Plus(get_point(m)[1], Times(Frac(RelativeSpeed, 1),
                                      mouse_pos[1] - last_pos[1]))
             rel_y == Plus(get_point(m)[2], Times(Frac(RelativeSpeed, 1),
                                      mouse_pos[2] - last_pos[2]))
         IN [mouse |-> set_point(m, Frac(Round(rel_x), 1),
                                 Frac(Round(rel_y), 1)),
             last_pos |-> mouse_pos,
             cursor |-> mouse_pos]
    ELSE [mouse |-> clear_point(m), last_pos |-> MiddlePos,
          cursor |-> MiddlePos]

\* The result has the new mouse buffer, the new mouse_last_pos and the
\* place of the cursor after QCursor.setPos, if it was called.
RelativeMove(m, last_pos, mouse_pos) ==
    IF last_pos # NoPos
    THEN LET rel_x == Plus(get_point(m)[1], Times(Frac(RelativeSpeed, 1),
                                      mouse_pos[1] - last_pos[1]))
             rel_y == Plus(get_point(m)[2], Times(Frac(RelativeSpeed, 1),
                                      mouse_pos[2] - last_pos[2]))
         IN [mouse |-> set_point(m, Frac(Round(rel_x), 1),
                                 Frac(Round(rel_y), 1)),
             last_pos |-> IF Far(mouse_pos) THEN MiddlePos ELSE mouse_pos,
             cursor |-> IF Far(mouse_pos) THEN MiddlePos ELSE mouse_pos]
    ELSE [mouse |-> clear_point(m), last_pos |-> MiddlePos,
          cursor |-> MiddlePos]

\* ------------------------------------------ ControllerDevice.device_event
CommandsAndMore ==
    {"device_open", "device_close", "device_check", "device_release",
     "device_reset", "keyboard_read", "keyboard_write",
     "mouse_relative_write", "mouse_absolute_write", "bogus"}

Commands ==
    {"device_open", "device_close", "device_check", "device_release",
     "device_reset", "keyboard_read", "keyboard_write",
     "mouse_relative_write", "mouse_absolute_write"}

\* The controller method a command runs.
ControllerOp(command) ==
    CASE command = "device_open" -> "create_connection"
      [] command = "device_close" -> "close_connection"
      [] command = "device_check" -> "check_connection"
      [] command = "device_release" -> "release"
      [] command = "device_reset" -> "reset_controller"
      [] command = "keyboard_read" -> "keyboard_receive_status"
      [] command = "keyboard_write" -> "keyboard_send_data"
      [] command \in {"mouse_relative_write", "mouse_absolute_write"} ->
            "mouse_send_data"
      [] OTHER -> "none"

\* device_event(command, buffer) -> (command, status_code, reply): the
\* command's controller call, its outcome turned into a status code (0 is
\* success).  An absent or closed connection, an exception of the transport
\* and a name outside Commands all yield a non-zero status; the controller
\* state is whatever the controller call left.
device_event(c, command, payload, o1, o2) ==
    LET r == CASE command = "device_open" -> create_connection(c, o1)
               [] command = "device_close" -> close_connection(c)
               [] command = "device_check" -> check_connection(c)
               [] command = "device_release" ->
                     release(c, payload.release_type, o1, o2)
               [] command = "device_reset" -> reset_controller(c, o1)
               [] command = "keyboard_read" ->
                     keyboard_receive_status(c, o1)
               [] command = "keyboard_write" ->
                     keyboard_send_data(c, payload.keys,
                                        payload.function_keys, o1)
               [] command = "mouse_relative_write" ->
                     mouse_send_data(c, TRUE, o1)
               [] command = "mouse_absolute_write" ->
                     mouse_send_data(c, FALSE, o1)
               [] OTHER -> Ret(c, "None", FALSE, <<>>)
        status ==
            CASE command \notin Commands -> 1
              [] r.raised -> 1
              [] command = "device_close" -> 0
              [] command \in {"device_open", "device_check"} ->
                    IF r.ret = "True" THEN 0 ELSE 1
              [] command = "keyboard_read" ->
                    IF r.ret = "(True, indicators)" THEN 0 ELSE 1
              [] OTHER -> IF Unavailable(c) THEN 1 ELSE 0
    IN [r |-> r, status |-> status]

DeviceEventMet(c, command, payload, o1, o2) ==
    CASE command = "device_open" -> IF c.port = "" THEN <<>> ELSE <<o1>>
      [] command = "device_release" ->
            ReleaseMet(c, payload.release_type, o1, o2)
      [] command \in Commands \ {"device_close", "device_check"} ->
            Met(c, <<o1>>)
      [] OTHER -> <<>>

\* ---------------------------------------------------- the worker thread
\* ControllerEventWorker lives in controller_worker_thread: a signal
\* emitted from the main thread is queued to that thread's event loop,
\* which runs one slot to its end before it takes the next event.
CanDispatchAnyTime == TRUE

CanDispatch == executing = {}

NextEventNewest(q) == Len(q)

NextEvent(q) == 1

\* command_send_signal.emit(command, buffer) in the main thread.
Emit(command, payload) ==
    /\ Len(submitted) < MaxCommands
    /\ submitted' = Append(submitted, command)
    /\ queue' = Append(queue, [id |-> Len(submitted) + 1,
                               command |-> command, payload |-> payload])

\* The commands the main window emits besides device_open, and a name
\* outside the closed set.
Submit ==
    \E command \in (Commands \ {"device_open", "device_release"})
                       \cup {"bogus"} :
        /\ Emit(command, NoPayload)
        /\ UNCHANGED <<ctl_vars, executing, started, executed, replies,
                       mutex_locked, handed, kb_vars, ui_vars>>

\* controller_device_release(release_type): the emission, then the key
\* buffer cleared unless only the mouse is released, and the mouse buffer
\* cleared unless only the keyboard is released.
ReleaseBuffers_keys_only(t) ==
    /\ kb_keys' = IF t = "mouse" THEN kb_keys ELSE clear(KeyBuffer).keys
    /\ kb_mods' = IF t = "mouse" THEN kb_mods ELSE clear(KeyBuffer).mods
    /\ mouse' = mouse

ReleaseBuffers(t) ==
    /\ kb_keys' = IF t = "mouse" THEN kb_keys ELSE clear(KeyBuffer).keys
    /\ kb_mods' = IF t = "mouse" THEN kb_mods ELSE clear(KeyBuffer).mods
    /\ mouse' = IF t = "keyboard" THEN mouse ELSE mouse_buffer_clear(mouse)

\* The type controller_device_release emits for its argument, and the
\* argument emitted as it is.
ReleaseType_as_given(release_type) == release_type

ReleaseType(release_type) ==
    IF release_type \in {"keyboard", "mouse"} THEN release_type ELSE "all"

controller_device_release ==
    \E release_type \in {"keyboard", "mouse", "all", "any"} :
        /\ Emit("device_release",
                [NoPayload EXCEPT !.release_type = ReleaseType(release_type)])
        /\ ReleaseBuffers(ReleaseType(release_type))
        /\ UNCHANGED <<ctl_vars, executing, started, executed, replies,
                       mutex_locked, handed, kb_last, mouse_capture,
                       relative_mode, mouse_last_pos, mouse_need_report,
                       mouse_last, view, app_vars>>

\* device_init hands the configured port to set_connection_params, then
\* device_open is emitted.
controller_device_connect ==
    \E p \in Ports :
        /\ port' = p
        /\ Emit("device_open", NoPayload)
        /\ UNCHANGED <<connection, open, last, executing, started, executed,
                       replies, mutex_locked, handed, kb_vars, ui_vars>>

\* The event loop takes the next queued emission and enters command_send.
WorkerDispatch ==
    /\ CanDispatch
    /\ queue # <<>>
    /\ LET i == NextEvent(queue)
       IN /\ executing' = executing \cup {queue[i]}
          /\ started' = Append(started, queue[i].id)
          /\ queue' = RemoveAt(queue, i)
    /\ UNCHANGED <<ctl_vars, submitted, executed, replies, mutex_locked,
                   handed, kb_vars, ui_vars>>

RepliesOnSuccessOnly(rs, e, status) ==
    IF status = 0
    THEN Append(rs, [id |-> e.id, command |-> e.command, status |-> status])
    ELSE rs

\* self.command_reply_signal.emit(command, status_code, reply)
Replies(rs, e, status) ==
    Append(rs, [id |-> e.id, command |-> e.command, status |-> status])

\* The buffer object a queued command carries, as command_send reads it:
\* a copy holds what it was made with, the buffer itself holds what the
\* main thread has made of it since.
Deref(payload) ==
    CASE payload.live = "keyboard" ->
             [payload EXCEPT !.keys = kb_keys,
                             !.function_keys = SortedSeq(kb_mods),
                             !.released = {}]
      [] payload.live = "mouse" ->
             [payload EXCEPT !.buttons = mouse.buttons, !.x = mouse.x,
                             !.y = mouse.y, !.wheel = mouse.wheel]
      [] OTHER -> payload

\* HID usage codes of the lock keys.
LockKeyCodes == ("num_lock" :> 83) @@ ("caps_lock" :> 57) @@ ("scroll_lock" :> 71)

\* The remote keyboard after command e was executed on it with the given
\* buffer.  A keyboard report that succeeds switches the lock of every lock
\* key it has down that the report before it had not; a keyboard_read that
\* succeeds is answered with the locks.
ChipAfter(c, e, buffer, status) ==
    LET down == (Range(buffer.keys) \ buffer.released)
                    \cup Range(buffer.function_keys)
        struck == down \ c.down
    IN IF status # 0 THEN c
       ELSE IF e.command = "keyboard_write"
       THEN [c EXCEPT !.down = down,
                      !.locks = [name \in DOMAIN LockKeyCodes |->
                                    IF LockKeyCodes[name] \in struck
                                    THEN ~c.locks[name] ELSE c.locks[name]]]
       ELSE IF e.command = "keyboard_read"
       THEN [c EXCEPT !.answers = Append(@, [id |-> e.id, data |-> c.locks])]
       ELSE c

\* The body of command_send: device_event, the reply, and the exit of the
\* with block, where the QMutexLocker unlocks the mutex if it holds it.
command_send ==
    \E e \in executing, o1 \in ReadOutcomes, o2 \in WriteOutcomes :
        /\ (o1 = "nak" => e.command = "keyboard_read")
        /\ LET buffer == Deref(e.payload)
               d == device_event(Ctl, e.command, buffer, o1, o2)
           IN /\ connection' = d.r.connection
              /\ open' = d.r.open
              /\ last' = Observed(ControllerOp(e.command),
                                  buffer.release_type, Ctl,
                                  DeviceEventMet(Ctl, e.command, buffer,
                                                 o1, o2),
                                  d.r, [keys |-> buffer.keys,
                                        function_keys |->
                                            buffer.function_keys])
              /\ executed' = Append(executed, e.id)
              /\ replies' = Replies(replies, e, d.status)
              /\ executing' = executing \ {e}
              /\ mutex_locked' = FALSE
              /\ handed' = [id |-> e.id, buffer |-> buffer,
                            enqueued |-> e.payload]
              /\ chip' = ChipAfter(chip, e, buffer, d.status)
              /\ UNCHANGED <<port, queue, submitted, started, kb_vars,
                             mouse_vars, view, indicator, handled,
                             controller, typed, refresh, status_buffer>>

Next ==
    \/ Submit
    \/ controller_device_release
    \/ controller_device_connect
    \/ WorkerDispatch
    \/ command_send

Spec == Init /\ [][Next]_vars

\* ------------------------------------------ the main window: input events
\* The mouse handlers return at once unless status "mouse_capture" is set
\* and "block_input" and "pause_mouse" are off.

PointerPositions == {<<x, y>> : x \in (-1)..MaxPixel, y \in (-1)..MaxPixel}
CursorPositions == {<<0, 0>>, <<2, 3>>, <<1, 4>>}
\* The cursor at the threshold and beyond it, on each axis.
FarCursorPositions ==
    {MiddlePos, <<25, -25>>, <<26, 0>>, <<3, -40>>, <<-26, 5>>, <<-10, 10>>}
Resolutions == {<<4, 3>>, <<2, 1>>}
\* x_pos, y_pos, width, height of the viewport
Viewports == {<<0, 0, 4, 3>>, <<1, 0, 6, 3>>, <<0, 1, 3, 6>>}
AngleDeltas == {120, -120, 15}
TypedKeys == {4}

\* Where p lies on an axis whose content runs from pos + diff / 2 to
\* pos + size - diff / 2.
Side(p, pos, size, diff) ==
    IF 2 * diff[2] * (p - pos) < diff[1] THEN "before"
    ELSE IF 2 * diff[2] * (p - pos - size) > -diff[1] THEN "after"
    ELSE "in"

\* The record of a mouse event; seeded says that a motion sample was taken
\* in relative mode since relative mode was last switched, pos is where the
\* last sample of relative mode met the cursor and cursor where it left it.
MouseEvent(op, x_side, y_side, wheel, sampled) ==
    [op |-> op, x_side |-> x_side, y_side |-> y_side, wheel |-> wheel,
     sampled |-> sampled, seeded |-> op = "move_relative" \/ mouse_last.seeded,
     pos |-> mouse_last.pos, cursor |-> mouse_last.cursor]

keyboard_write_payload_live(b) ==
    [NoPayload EXCEPT !.keys = b.keys,
                      !.function_keys = SortedSeq(b.mods),
                      !.released = b.released,
                      !.live = "keyboard"]

\* self.keyboard_key_buffer.dup() as the buffer of a keyboard_write
keyboard_write_payload(b) ==
    [NoPayload EXCEPT !.keys = dup(b).keys,
                      !.function_keys = SortedSeq(dup(b).mods),
                      !.released = dup(b).released]

\* self.mouse_buffer.dup() as the buffer of a mouse write
mouse_write_payload(m) ==
    [NoPayload EXCEPT !.buttons = mouse_buffer_dup(m).buttons,
                      !.x = mouse_buffer_dup(m).x,
                      !.y = mouse_buffer_dup(m).y,
                      !.wheel = mouse_buffer_dup(m).wheel]

MouseCommand ==
    IF relative_mode THEN "mouse_relative_write" ELSE "mouse_absolute_write"

\* video_device_connect: the camera starts with a configured resolution.
video_device_connect(resolutions) ==
    \E res \in resolutions :
        /\ ~view.camera
        /\ view' = [view EXCEPT !.camera = TRUE, !.resolution_x = res[1],
                                !.resolution_y = res[2]]
        /\ UNCHANGED <<ctl_vars, worker_vars, kb_vars, mouse_vars, app_vars>>

video_device_disconnect ==
    /\ view.camera
    /\ view' = [view EXCEPT !.camera = FALSE]
    /\ UNCHANGED <<ctl_vars, worker_vars, kb_vars, mouse_vars, app_vars>>

\* The window is resized or laid out anew: the viewport takes another
\* position and size.
ViewportChanged ==
    \E g \in Viewports :
        /\ view' = [view EXCEPT !.x_pos = g[1], !.y_pos = g[2],
                                !.width = g[3], !.height = g[4]]
        /\ UNCHANGED <<ctl_vars, worker_vars, kb_vars, mouse_vars, app_vars>>

video_keep_aspect_ratio_toggle ==
    /\ view' = [view EXCEPT !.keep_aspect_ratio = ~@]
    /\ UNCHANGED <<ctl_vars, worker_vars, kb_vars, mouse_vars, app_vars>>

mouse_cursor_correction_action ==
    /\ view' = [view EXCEPT !.correction_cursor = ~@]
    /\ UNCHANGED <<ctl_vars, worker_vars, kb_vars, mouse_vars, app_vars>>

mouse_relative_mouse_action ==
    /\ relative_mode' = ~relative_mode
    /\ mouse_last' = [mouse_last EXCEPT !.seeded = FALSE]
    /\ UNCHANGED <<ctl_vars, worker_vars, kb_vars, mouse_capture, mouse,
                   mouse_last_pos, mouse_need_report, view, app_vars>>

\* The menu's release of the mouse.
mouse_capture_release_action ==
    /\ mouse_capture' = FALSE
    /\ UNCHANGED <<ctl_vars, worker_vars, kb_vars, relative_mode, mouse,
                   mouse_last_pos, mouse_need_report, mouse_last, view,
                   app_vars>>

\* mousePressEvent while the mouse is not captured: a left click on the
\* running video captures it and nothing is sent.
mouse_capture_action ==
    /\ ~mouse_capture
    /\ view.camera
    /\ mouse_capture' = TRUE
    /\ UNCHANGED <<ctl_vars, worker_vars, kb_vars, relative_mode, mouse,
                   mouse_last_pos, mouse_need_report, mouse_last, view, app_vars>>

\* user_input_state_sync, after pause_keyboard or pause_mouse was checked
\* or unchecked in the menu.
user_input_state_sync ==
    /\ \E name \in {"pause_keyboard", "pause_mouse"} :
           status_buffer' = [status_buffer EXCEPT ![name] = ~@]
    /\ UNCHANGED <<ctl_vars, worker_vars, kb_vars, mouse_vars, view,
                   indicator, handled, controller, typed, refresh, chip>>

\* The returns at the head of mouseMoveEvent, mousePressEvent,
\* mouseReleaseEvent and wheelEvent, and the first of them alone.
MouseIgnored_uncaptured == ~mouse_capture

MouseIgnored ==
    \/ ~mouse_capture
    \/ status_buffer.block_input
    \/ status_buffer.pause_mouse

\* A mouse event that returns at the head of its handler.  A left press
\* on the running video with the mouse not captured is
\* mouse_capture_action.
mouseEvent_returns ==
    /\ MouseIgnored
    /\ \E op \in {"move", "PRESS", "RELEASE", "wheel"} :
           mouse_last' = MouseEvent("ignored_" \o op, "in", "in", "STOP",
                                    mouse_last.sampled)
    /\ UNCHANGED <<ctl_vars, worker_vars, kb_vars, mouse_capture,
                   relative_mode, mouse, mouse_last_pos, mouse_need_report,
                   view, app_vars>>

\* mouseMoveEvent: update_mouse_position_buffer in the current mode.  The
\* pointer is at pos in the window (absolute mode) or the cursor at pos
\* from the middle of the window (relative mode).
mouseMoveEvent(positions, cursors) ==
    /\ ~MouseIgnored
    /\ \/ /\ ~relative_mode
          /\ \E pos \in positions :
                 LET pt == AbsolutePoint(view, pos[1], pos[2])
                 IN /\ mouse' = set_point(mouse, pt[1], pt[2])
                    /\ mouse_last' =
                           MouseEvent("move_absolute",
                                      Side(pos[1], XPos(view), view.width,
                                           XDiff(view)),
                                      Side(pos[2], YPos(view), view.height,
                                           YDiff(view)),
                                      "STOP", mouse_last.sampled)
          /\ mouse_last_pos' = NoPos
       \/ /\ relative_mode
          /\ Abs(Round(mouse.x)) <= MaxPending
          /\ Abs(Round(mouse.y)) <= MaxPending
          /\ Abs(mouse_last.sampled[1]) <= MaxPending
          /\ Abs(mouse_last.sampled[2]) <= MaxPending
          /\ \E pos \in cursors :
                 LET r == RelativeMove(mouse, mouse_last_pos, pos)
                 IN /\ mouse' = r.mouse
                    /\ mouse_last_pos' = r.last_pos
                    /\ mouse_last' =
                           [MouseEvent("move_relative", "in", "in", "STOP",
                                       IF mouse_last_pos = NoPos
                                       THEN mouse_last.sampled
                                       ELSE <<mouse_last.sampled[1]
                                                 + (pos[1] - mouse_last_pos[1])
                                                   * RelativeSpeed,
                                              mouse_last.sampled[2]
                                                 + (pos[2] - mouse_last_pos[2])
                                                   * RelativeSpeed>>)
                               EXCEPT !.pos = pos, !.cursor = r.cursor]
    /\ mouse_need_report' = TRUE
    /\ UNCHANGED <<ctl_vars, worker_vars, kb_vars, mouse_capture,
                   relative_mode, view, app_vars>>

\* mousePressEvent / mouseReleaseEvent with the mouse captured: the button
\* set, the point cleared in relative mode, a copy of the buffer emitted.
MouseButtonEvent(button, state) ==
    LET m1 == set_button(mouse, button, state)
        m2 == IF relative_mode THEN clear_point(m1) ELSE m1
    IN /\ ~MouseIgnored
       /\ mouse' = m2
       /\ Emit(MouseCommand, mouse_write_payload(m2))
       /\ mouse_last' = MouseEvent(state, "in", "in", "STOP",
                                   mouse_last.sampled)
       /\ UNCHANGED <<ctl_vars, executing, started, executed, replies,
                      mutex_locked, handed, kb_vars, mouse_capture,
                      relative_mode, mouse_last_pos, mouse_need_report,
                      view, app_vars>>

mousePressEvent == \E button \in MouseButtons : MouseButtonEvent(button, "PRESS")

mouseReleaseEvent ==
    \E button \in MouseButtons : MouseButtonEvent(button, "RELEASE")

wheelEvent_held ==
    \E y \in AngleDeltas :
        LET w == IF y = 120 THEN "DOWN" ELSE IF y = -120 THEN "UP" ELSE "STOP"
            m1 == [mouse EXCEPT !.wheel = w]
        IN /\ ~MouseIgnored
           /\ Emit(MouseCommand, mouse_write_payload(m1))
           /\ mouse' = m1
           /\ mouse_last' = MouseEvent("wheel", "in", "in", w,
                                       mouse_last.sampled)
           /\ UNCHANGED <<ctl_vars, executing, started, executed, replies,
                          mutex_locked, handed, kb_vars, mouse_capture,
                          relative_mode, mouse_last_pos, mouse_need_report,
                          view, app_vars>>

\* wheelEvent: the wheel state set from angleDelta().y(), then
\* mouse_scroll_report: a copy of the buffer emitted and the wheel stopped.
wheelEvent ==
    \E y \in AngleDeltas :
        LET w == IF y = 120 THEN "DOWN" ELSE IF y = -120 THEN "UP" ELSE "STOP"
            m1 == [mouse EXCEPT !.wheel = w]
        IN /\ ~MouseIgnored
           /\ Emit(MouseCommand, mouse_write_payload(m1))
           /\ mouse' = [m1 EXCEPT !.wheel = "STOP"]
           /\ mouse_last' = MouseEvent("wheel", "in", "in", w,
                                       mouse_last.sampled)
           /\ UNCHANGED <<ctl_vars, executing, started, executed, replies,
                          mutex_locked, handed, kb_vars, mouse_capture,
                          relative_mode, mouse_last_pos, mouse_need_report,
                          view, app_vars>>

\* The mouse buffer after the timer has emitted its copy.
Flushed_kept(m) == m

Flushed(m) == IF relative_mode THEN clear_point(m) ELSE m

\* mouse_timer_report: with a report due a copy of the buffer is emitted
\* and, in relative mode, the point cleared; the flag is put down in any
\* case.
mouse_timer_report ==
    /\ \/ /\ mouse_need_report
          /\ Emit(MouseCommand, mouse_write_payload(mouse))
          /\ mouse' = Flushed(mouse)
          /\ mouse_last' = MouseEvent("timer", "in", "in", "STOP",
                                      IF relative_mode THEN <<0, 0>>
                                      ELSE mouse_last.sampled)
       \/ /\ ~mouse_need_report
          /\ mouse_last' = MouseEvent("timer", "in", "in", "STOP",
                                      mouse_last.sampled)
          /\ UNCHANGED <<queue, submitted, mouse>>
    /\ mouse_need_report' = FALSE
    /\ UNCHANGED <<ctl_vars, executing, started, executed, replies,
                   mutex_locked, handed, kb_vars, mouse_capture,
                   relative_mode, mouse_last_pos, view, app_vars>>

\* The buffer after key_press or key_release, before clear_released.
AfterKey(code, state) ==
    IF state = "PRESS" THEN key_press(KeyBuffer, code)
    ELSE key_release(KeyBuffer, code)

\* keyPressEvent / keyReleaseEvent of a key that is neither a hot key nor
\* an indicator key: update_keyboard_buffer_with_hid_code and its
\* keyboard_write.
KeyboardEvent(code, state) ==
    /\ update_keyboard_buffer_with_hid_code(code, state)
    /\ Emit("keyboard_write", keyboard_write_payload(AfterKey(code, state)))
    /\ UNCHANGED <<ctl_vars, executing, started, executed, replies,
                   mutex_locked, handed, ui_vars>>

\* data/keyboard_scancode_to_hid_code.py: the native scancodes of A and E
\* with their HID usage codes.
SCANCODE_TO_HID_CODE == (30 :> 4) @@ (18 :> 8)

\* Scancodes of key events: A, E and one the table does not have.
Scancodes == {30, 18, 999}

\* self.keyboard_scancode_to_hid_code.get(scancode, 0)
scancode_to_hid_code_get(scancode) ==
    IF scancode \in DOMAIN SCANCODE_TO_HID_CODE
    THEN SCANCODE_TO_HID_CODE[scancode] ELSE 0

\* if hid_code == 0: return
Unknown_never(hid_code) == FALSE

Unknown(hid_code) == hid_code = 0

\* update_keyboard_buffer_with_scancode(scancode, state), called by
\* keyPressEvent and keyReleaseEvent with event.nativeScanCode(): a
\* scancode without a HID code is logged and nothing else is done.
update_keyboard_buffer_with_scancode(scancodes) ==
    \E scancode \in scancodes, state \in {"PRESS", "RELEASE"} :
        LET hid_code == scancode_to_hid_code_get(scancode)
        IN IF Unknown(hid_code)
           THEN /\ kb_last' = KeyEvent("UNKNOWN", hid_code, KeyBuffer,
                                       KeyBuffer)
                /\ UNCHANGED <<ctl_vars, worker_vars, kb_keys, kb_mods,
                               ui_vars>>
           ELSE KeyboardEvent(hid_code, state)

\* The returns of keyPressEvent after the hot keys and of keyReleaseEvent,
\* and a handler that has none.
KeyboardIgnored_never == FALSE

KeyboardIgnored ==
    status_buffer.block_input \/ status_buffer.pause_keyboard

keyPressEvent ==
    /\ ~KeyboardIgnored
    /\ \E code \in TypedKeys : KeyboardEvent(code, "PRESS")

keyReleaseEvent ==
    /\ ~KeyboardIgnored
    /\ \E code \in TypedKeys : KeyboardEvent(code, "RELEASE")

\* A key event that returns before it reaches the key buffer.
keyEvent_returns ==
    /\ KeyboardIgnored
    /\ \E code \in TypedKeys, state \in {"PRESS", "RELEASE"} :
           kb_last' = KeyEvent("ignored_" \o state, code, KeyBuffer,
                               KeyBuffer)
    /\ UNCHANGED <<ctl_vars, worker_vars, kb_keys, kb_mods, ui_vars>>

NextAbs ==
    \/ video_device_connect(Resolutions)
    \/ video_device_disconnect
    \/ ViewportChanged
    \/ video_keep_aspect_ratio_toggle
    \/ mouse_cursor_correction_action
    \/ mouse_capture_action
    \/ mouseMoveEvent(PointerPositions, {})

SpecAbs == Init /\ [][NextAbs]_vars

\* Relative mode: cursor motion, buttons and the report timer.
NextRel ==
    \/ video_device_connect({<<4, 3>>})
    \/ mouse_capture_action
    \/ mouse_relative_mouse_action
    \/ mouseMoveEvent({}, CursorPositions)
    \/ mousePressEvent
    \/ mouseReleaseEvent
    \/ mouse_timer_report

SpecRel == Init /\ [][NextRel]_vars

\* The mouse in both modes: the wheel, buttons, motion and the report timer.
NextMouse ==
    \/ video_device_connect({<<4, 3>>})
    \/ mouse_capture_action
    \/ mouse_relative_mouse_action
    \/ mouseMoveEvent({<<1, 1>>}, {MiddlePos})
    \/ wheelEvent
    \/ mouse_timer_report
    \/ mousePressEvent
    \/ mouseReleaseEvent

SpecMouse == Init /\ [][NextMouse]_vars

\* Sessions of relative mode: the mode switched, the mouse captured and
\* released, cursor motion and the report timer.  Motion is sampled in
\* relative mode only: the mode is switched from the menu with the mouse
\* released, when mouseMoveEvent returns before it samples.
NextSession ==
    \/ video_device_connect({<<4, 3>>})
    \/ mouse_capture_action
    \/ mouse_capture_release_action
    \/ mouse_relative_mouse_action
    \/ mouseMoveEvent({}, {MiddlePos, <<2, 3>>})
    \/ mouse_timer_report

SpecSession == Init /\ [][NextSession]_vars

\* The report timer in both modes, with motion between its ticks.
NextFlush ==
    \/ video_device_connect({<<4, 3>>})
    \/ mouse_capture_action
    \/ mouse_relative_mouse_action
    \/ mouseMoveEvent({<<1, 1>>}, {<<2, 3>>})
    \/ mouse_timer_report

SpecFlush == Init /\ [][NextFlush]_vars

\* Relative mode with the cursor leaving the middle of the window.
NextRecenter ==
    \/ video_device_connect({<<4, 3>>})
    \/ mouse_capture_action
    \/ mouse_relative_mouse_action
    \/ mouseMoveEvent({}, FarCursorPositions)

SpecRecenter == Init /\ [][NextRecenter]_vars

\* Keyboard and mouse input in the main thread while the worker thread
\* executes what was emitted.
NextInput ==
    \/ video_device_connect({<<4, 3>>})
    \/ mouse_capture_action
    \/ mouseMoveEvent({<<1, 1>>}, {})
    \/ mouse_timer_report
    \/ wheelEvent
    \/ mousePressEvent
    \/ mouseReleaseEvent
    \/ keyPressEvent
    \/ keyReleaseEvent
    \/ WorkerDispatch
    \/ command_send

SpecInput == Init /\ [][NextInput]_vars

\* ------------------------------------ indicator keys and string expansion
MaxTyped == 20        \* commands emitted in one behaviour that sends strings
MaxEmitted == 7       \* commands emitted in one behaviour that reloads or
                      \* sends shortcuts

\* data/keyboard_key_name_to_hid_code.py: the names used here, with their
\* HID usage codes.  A letter has an entry for each case, on the same key.
KEY_NAME_TO_HID_CODE ==
    ("shift" :> 225) @@ ("caps_lock" :> 57) @@ ("num_lock" :> 83)
    @@ ("scroll_lock" :> 71) @@ ("a" :> 4) @@ ("e" :> 8) @@ ("h" :> 11)
    @@ ("H" :> 11) @@ ("l" :> 15) @@ ("o" :> 18) @@ ("1" :> 30)
    @@ ("!" :> 30)

\* data/keyboard_shift_symbol.py
SHIFT_SYMBOL == {"!"}

\* self.keyboard_key_name_to_hid_code.get(name, 0)
key_name_to_hid_code_get(name) ==
    IF name \in DOMAIN KEY_NAME_TO_HID_CODE THEN KEY_NAME_TO_HID_CODE[name]
    ELSE 0

\* Characters of a text: ASCII characters with a key, U+0007 (ASCII, no
\* key) and U+00E9 (not ASCII).
AsciiCharacters == {"a", "e", "h", "H", "l", "o", "1", "!", "U+0007"}

isascii(character) == character \in AsciiCharacters

isupper(character) == character \in {"H"}

Hello == <<"H", "e", "l", "l", "o", "!">>

Strings == {Hello, <<"U+00E9", "a", "U+0007">>, <<>>}

\* Texts with characters that are skipped between characters that are typed.
MixedStrings ==
    {<<"a", "U+00E9", "H", "U+0007", "e">>, <<"U+0007", "U+00E9">>}

IndicatorKeys == {"num_lock", "caps_lock", "scroll_lock"}

\* The calls of update_keyboard_buffer_with_hid_code one character makes.
CharKeystrokes_unshifted(character) ==
    LET key_code == key_name_to_hid_code_get(character)
    IN IF ~isascii(character) \/ key_code = 0 THEN <<>>
       ELSE << <<key_code, "PRESS">>, <<key_code, "RELEASE">> >>

CharKeystrokes_unskipped(character) ==
    LET shift_hid_code == key_name_to_hid_code_get("shift")
        shift_flag == character \in SHIFT_SYMBOL \/ isupper(character)
        key_code == key_name_to_hid_code_get(character)
    IN IF ~isascii(character) THEN <<>>
       ELSE IF shift_flag
       THEN << <<shift_hid_code, "PRESS">>, <<key_code, "PRESS">>,
               <<key_code, "RELEASE">>, <<shift_hid_code, "RELEASE">> >>
       ELSE << <<key_code, "PRESS">>, <<key_code, "RELEASE">> >>

CharKeystrokes(character) ==
    LET shift_hid_code == key_name_to_hid_code_get("shift")
        shift_flag == character \in SHIFT_SYMBOL \/ isupper(character)
        key_code == key_name_to_hid_code_get(character)
    IN IF ~isascii(character) \/ key_code = 0 THEN <<>>
       ELSE IF shift_flag
       THEN << <<shift_hid_code, "PRESS">>, <<key_code, "PRESS">>,
               <<key_code, "RELEASE">>, <<shift_hid_code, "RELEASE">> >>
       ELSE << <<key_code, "PRESS">>, <<key_code, "RELEASE">> >>

\* for character in data
RECURSIVE Keystrokes(_)
Keystrokes(data) ==
    IF data = <<>> THEN <<>>
    ELSE CharKeystrokes(Head(data)) \o Keystrokes(Tail(data))

\* update_keyboard_indicator_buffer(key_name): the cached lock is inverted
\* and the key is pressed and released.
IndicatorSwitchedOn(ind, key_name) == [ind EXCEPT ![key_name] = TRUE]

IndicatorToggled(ind, key_name) == [ind EXCEPT ![key_name] = ~@]

IndicatorKeystrokes(key_name) ==
    LET key_code == key_name_to_hid_code_get(key_name)
    IN << <<key_code, "PRESS">>, <<key_code, "RELEASE">> >>

\* One update_keyboard_buffer_with_hid_code call in a run of them: run is
\* [buffer, payloads, last], the buffer so far, the copies emitted so far
\* and the record of the last call.
TypeKey(run, stroke) ==
    LET code == stroke[1]
        state == stroke[2]
        b1 == IF state = "PRESS" THEN key_press(run.buffer, code)
              ELSE key_release(run.buffer, code)
    IN [buffer |-> clear_released(b1),
        payloads |-> Append(run.payloads, keyboard_write_payload(b1)),
        last |-> KeyEvent(state, code, run.buffer, dup(b1))]

\* The calls of a handler, one after the other.
RECURSIVE TypeKeys(_, _)
TypeKeys(run, strokes) ==
    IF strokes = <<>> THEN run
    ELSE CHOOSE r \in {TypeKeys(next, Tail(strokes)) :
                          next \in {TypeKey(run, Head(strokes))}} : TRUE

\* Emissions of one handler, in order; cap bounds the commands of a
\* behaviour.
EmitAll(events, cap) ==
    /\ Len(submitted) + Len(events) <= cap
    /\ submitted' = submitted \o [i \in 1..Len(events) |-> events[i].command]
    /\ queue' = queue \o [i \in 1..Len(events) |->
                              [id |-> Len(submitted) + i,
                               command |-> events[i].command,
                               payload |-> events[i].payload]]

KeyboardWrites(payloads) ==
    [i \in 1..Len(payloads) |->
        [command |-> "keyboard_write", payload |-> payloads[i]]]

\* The handler's key events applied to the key buffer and emitted.
Typed(strokes, cap) ==
    \E r \in {TypeKeys([buffer |-> KeyBuffer, payloads |-> <<>>,
                          last |-> kb_last], strokes)} :
        /\ EmitAll(KeyboardWrites(r.payloads), cap)
        /\ kb_keys' = r.buffer.keys
        /\ kb_mods' = r.buffer.mods
        /\ kb_last' = r.last

\* keyPressEvent of an indicator key.
update_keyboard_indicator_buffer(cap) ==
    \E key_name \in IndicatorKeys :
        /\ indicator' = IndicatorToggled(indicator, key_name)
        /\ Typed(IndicatorKeystrokes(key_name), cap)
        /\ refresh' = [refresh EXCEPT !.touched = TRUE]
        /\ UNCHANGED <<ctl_vars, executing, started, executed, replies,
                       mutex_locked, handed, mouse_vars, view, handled,
                       controller, typed, status_buffer, chip>>

\* user_input_block(block), and one that blocks whatever it is given.
user_input_block_always(s, block) == [s EXCEPT !.block_input = TRUE]

user_input_block(s, block) == [s EXCEPT !.block_input = block]

\* keyboard_send_string(data): input is blocked, caps lock is put off when
\* the cache has it on, the characters are typed, input is unblocked.  The
\* main thread sleeps between the characters, so no other handler runs
\* before the last one.
keyboard_send_string(strings) ==
    \E data \in strings :
        LET fix == IF indicator.caps_lock
                   THEN IndicatorKeystrokes("caps_lock") ELSE <<>>
            strokes == fix \o Keystrokes(data)
        IN /\ Typed(strokes, MaxTyped)
           /\ indicator' = IF indicator.caps_lock
                           THEN IndicatorToggled(indicator, "caps_lock")
                           ELSE indicator
           /\ typed' = [data |-> data, caps_lock |-> indicator.caps_lock,
                        strokes |-> strokes, first |-> Len(submitted) + 1]
           /\ refresh' = IF indicator.caps_lock
                         THEN [refresh EXCEPT !.touched = TRUE] ELSE refresh
           /\ status_buffer' =
                  user_input_block(user_input_block(status_buffer, TRUE),
                                   FALSE)
           /\ UNCHANGED <<ctl_vars, executing, started, executed, replies,
                          mutex_locked, handed, mouse_vars, view, handled,
                          controller, chip>>

\* random_sleep_ms(min_interval, max_interval) hands QThread.msleep the name
\* interval, which is neither a parameter nor a name of the module: the
\* call raises NameError, whatever the arguments.
random_sleep_ms_raises == TRUE

\* Key lists of the shortcut table and of the custom key dialog.
ShortcutKeys == {<<"shift", "a">>, <<"no_such_key", "e">>, <<>>}

\* key_code_list of shortcut_key_send: the codes of the names that have one.
RECURSIVE key_code_list(_)
key_code_list(keys) ==
    IF keys = <<>> THEN <<>>
    ELSE LET key_code == key_name_to_hid_code_get(Head(keys))
         IN (IF key_code = 0 THEN <<>> ELSE <<key_code>>)
            \o key_code_list(Tail(keys))

\* shortcut_key_send(keys): every mapped key is pressed, random_sleep_ms is
\* called, every mapped key is released.  The statements after a call that
\* raises do not run.
ShortcutKeystrokes(keys) ==
    LET codes == key_code_list(keys)
        presses == [i \in 1..Len(codes) |-> <<codes[i], "PRESS">>]
        releases == [i \in 1..Len(codes) |-> <<codes[i], "RELEASE">>]
    IN IF random_sleep_ms_raises THEN presses ELSE presses \o releases

shortcut_key_send(key_lists) ==
    \E keys \in key_lists :
        LET strokes == ShortcutKeystrokes(keys)
        IN /\ Typed(strokes, MaxEmitted)
           /\ typed' = [data |-> keys, caps_lock |-> FALSE,
                        strokes |-> strokes, first |-> Len(submitted) + 1]
           /\ UNCHANGED <<ctl_vars, executing, started, executed, replies,
                          mutex_locked, handed, mouse_vars, view, indicator,
                          handled, controller, refresh,
                          status_buffer, chip>>

\* clear_keyboard_key_buffer() in a run of key buffer calls: the buffer is
\* cleared and a copy of it emitted; and a call that does nothing.
Cleared_not(run) == run

Cleared(run) ==
    LET b1 == clear(run.buffer)
    IN [buffer |-> b1,
        payloads |-> Append(run.payloads, keyboard_write_payload(b1)),
        last |-> KeyEvent("clear", 0, run.buffer, dup(b1))]

clear_keyboard_key_buffer ==
    /\ \E r \in {Cleared([buffer |-> KeyBuffer, payloads |-> <<>>,
                           last |-> kb_last])} :
           /\ EmitAll(KeyboardWrites(r.payloads), MaxCommands)
           /\ kb_keys' = r.buffer.keys
           /\ kb_mods' = r.buffer.mods
           /\ kb_last' = r.last
    /\ UNCHANGED <<ctl_vars, executing, started, executed, replies,
                   mutex_locked, handed, ui_vars>>

quick_paste_toggle ==
    /\ status_buffer' = [status_buffer EXCEPT !.quick_paste = ~@]
    /\ UNCHANGED <<ctl_vars, worker_vars, kb_vars, mouse_vars, view,
                   indicator, handled, controller, typed, refresh, chip>>

\* The keys keyPressEvent looks for when Ctrl and Alt are the modifiers,
\* with the HID usage codes of their scancodes.
HotKeys == {"F11", "F12", "V"}

HotKeyCode == ("F11" :> 68) @@ ("F12" :> 69) @@ ("V" :> 25)

\* QApplication.clipboard().text()
ClipboardTexts == {<<>>, <<"a">>}

\* is_register_function_keys
Registered(key) ==
    key \in {"F11", "F12"} \/ (key = "V" /\ status_buffer.quick_paste)

\* keyPressEvent with Ctrl and Alt as the modifiers and a key of HotKeys.
\* F11 toggles the full screen; F12 releases the mouse and emits
\* device_release("mouse"); V with quick paste on is quick_paste_trigger,
\* which with a text in the clipboard clears the key buffer and sends the
\* text.  After any of them clear_keyboard_key_buffer is called and the
\* handler returns.  V with quick paste off goes on as any other key.
keyPressEvent_hotkey(cap) ==
    \E key \in HotKeys, text \in ClipboardTexts :
        LET run0 == [buffer |-> KeyBuffer, payloads |-> <<>>,
                     last |-> kb_last]
            pasting == key = "V" /\ text # <<>>
            fix == IF pasting /\ indicator.caps_lock
                   THEN IndicatorKeystrokes("caps_lock") ELSE <<>>
            strokes == IF pasting THEN fix \o Keystrokes(text) ELSE <<>>
            released ==
                IF key = "F12"
                THEN <<[command |-> "device_release",
                        payload |-> [NoPayload EXCEPT
                                        !.release_type = ReleaseType("mouse")]]>>
                ELSE <<>>
        IN IF Registered(key)
           THEN \E r \in {Cleared(IF pasting
                                  THEN TypeKeys(Cleared(run0), strokes)
                                  ELSE run0)} :
                    /\ EmitAll(released \o KeyboardWrites(r.payloads), cap)
                    /\ kb_keys' = r.buffer.keys
                    /\ kb_mods' = r.buffer.mods
                    /\ kb_last' = [r.last EXCEPT !.op = "hotkey_" \o key]
                    /\ mouse_capture' = IF key = "F12" THEN FALSE
                                        ELSE mouse_capture
                    /\ mouse' = IF key = "F12" THEN mouse_buffer_clear(mouse)
                                ELSE mouse
                    /\ indicator' = IF fix # <<>>
                                    THEN IndicatorToggled(indicator,
                                                          "caps_lock")
                                    ELSE indicator
                    /\ typed' = IF pasting
                                THEN [data |-> text,
                                      caps_lock |-> indicator.caps_lock,
                                      strokes |-> strokes,
                                      first |-> Len(submitted) + 2]
                                ELSE typed
                    /\ refresh' = IF fix # <<>>
                                  THEN [refresh EXCEPT !.touched = TRUE]
                                  ELSE refresh
                    /\ status_buffer' =
                           IF pasting
                           THEN user_input_block(
                                    user_input_block(status_buffer, TRUE),
                                    FALSE)
                           ELSE status_buffer
                    /\ UNCHANGED <<ctl_vars, executing, started, executed,
                                   replies, mutex_locked, handed,
                                   relative_mode, mouse_last_pos,
                                   mouse_need_report, mouse_last, view,
                                   handled, controller, chip>>
           ELSE IF KeyboardIgnored
           THEN /\ kb_last' = KeyEvent("ignored_PRESS", HotKeyCode[key],
                                       KeyBuffer, KeyBuffer)
                /\ UNCHANGED <<ctl_vars, worker_vars, kb_keys, kb_mods,
                               ui_vars>>
           ELSE KeyboardEvent(HotKeyCode[key], "PRESS")

NextShortcut ==
    \/ shortcut_key_send(ShortcutKeys)
    \/ keyPressEvent
    \/ keyReleaseEvent
    \/ clear_keyboard_key_buffer

SpecShortcut == Init /\ [][NextShortcut]_vars

\* Keys and buttons held, the pointer moved, and a release of the devices.
NextRelease ==
    \/ video_device_connect({<<4, 3>>})
    \/ mouse_capture_action
    \/ mouseMoveEvent({<<1, 1>>}, {})
    \/ mousePressEvent
    \/ keyPressEvent
    \/ controller_device_release

SpecRelease == Init /\ [][NextRelease]_vars

\* Relative mode with the wheel: cursor motion, wheel reports and the
\* report timer.
NextWheel ==
    \/ video_device_connect({<<4, 3>>})
    \/ mouse_capture_action
    \/ mouse_relative_mouse_action
    \/ mouseMoveEvent({}, {MiddlePos, <<2, 3>>})
    \/ wheelEvent
    \/ mouse_timer_report

SpecWheel == Init /\ [][NextWheel]_vars

\* The keyboard paused and resumed between key events.
NextPauseKeys ==
    \/ user_input_state_sync
    \/ keyPressEvent
    \/ keyReleaseEvent
    \/ keyEvent_returns

SpecPauseKeys == Init /\ [][NextPauseKeys]_vars

\* The mouse captured, released, paused and resumed between mouse events.
NextPauseMouse ==
    \/ video_device_connect({<<4, 3>>})
    \/ mouse_capture_action
    \/ mouse_capture_release_action
    \/ user_input_state_sync
    \/ mouseMoveEvent({<<1, 1>>}, {})
    \/ mousePressEvent
    \/ mouseReleaseEvent
    \/ wheelEvent
    \/ mouseEvent_returns

SpecPauseMouse == Init /\ [][NextPauseMouse]_vars

\* The hot keys between key events, with the keyboard paused and resumed
\* and quick paste switched.  Ctrl and Alt are pressed as any other key.
NextHotKey ==
    \/ keyPressEvent_hotkey(MaxEmitted)
    \/ keyPressEvent
    \/ keyReleaseEvent
    \/ keyEvent_returns
    \/ /\ ~KeyboardIgnored
       /\ \E code \in {224, 226} : KeyboardEvent(code, "PRESS")
    \/ user_input_state_sync
    \/ quick_paste_toggle

SpecHotKey == Init /\ [][NextHotKey]_vars

\* Key events with native scancodes.
NextScan ==
    \/ update_keyboard_buffer_with_scancode(Scancodes)
    \/ clear_keyboard_key_buffer

SpecScan == Init /\ [][NextScan]_vars

\* Lock keys and other keys pressed in the window, no worker running.
NextIndicator ==
    \/ update_keyboard_indicator_buffer(MaxEmitted)
    \/ keyPressEvent
    \/ keyReleaseEvent

SpecIndicator == Init /\ [][NextIndicator]_vars

\* Texts pasted with characters that cannot be typed.
NextSkip ==
    \/ keyboard_send_string(MixedStrings)
    \/ update_keyboard_indicator_buffer(MaxCommands)
    \/ keyPressEvent
    \/ keyReleaseEvent

SpecSkip == Init /\ [][NextSkip]_vars

NextString ==
    \/ keyboard_send_string(Strings)
    \/ update_keyboard_indicator_buffer(MaxCommands)
    \/ keyPressEvent
    \/ keyReleaseEvent

SpecString == Init /\ [][NextString]_vars

\* ------------------------------- the main window: replies of the worker

\* What keyboard.receive_indicator_status decoded from the chip's answer.
IndicatorReplies ==
    {[usb_connect_status |-> TRUE, num_lock |-> n, caps_lock |-> c,
      scroll_lock |-> FALSE] : n \in BOOLEAN, c \in BOOLEAN}

\* KeyboardIndicatorBuffer.from_dict(data)
from_dict(ind, data) ==
    [num_lock |-> data.num_lock, caps_lock |-> data.caps_lock,
     scroll_lock |-> data.scroll_lock]

\* KeyboardIndicatorBuffer.clear()
indicator_clear(ind) == NoIndicators

Event(command) == [command |-> command, payload |-> NoPayload]

\* The timer's controller_device_check_connection.
controller_device_check_connection ==
    /\ Emit("device_check", NoPayload)
    /\ UNCHANGED <<ctl_vars, executing, started, executed, replies,
                   mutex_locked, handed, kb_vars, ui_vars>>

\* sync_keyboard_indicator_buffer: the cache is cleared, then keyboard_read
\* is emitted.
sync_keyboard_indicator_buffer ==
    /\ indicator' = indicator_clear(indicator)
    /\ Emit("keyboard_read", NoPayload)
    /\ refresh' = [id |-> Len(submitted) + 1, before |-> indicator,
                   touched |-> FALSE, data |-> refresh.data]
    /\ UNCHANGED <<ctl_vars, executing, started, executed, replies,
                   mutex_locked, handed, kb_vars, mouse_vars, view, handled,
                   controller, typed, status_buffer, chip>>

\* controller_device_reload(reload_type): controller_device_release, then
\* controller_device_disconnect, then controller_device_connect.
controller_device_reload(reload_types) ==
    \E reload_type \in reload_types, p \in Ports :
        LET t == IF reload_type \in {"keyboard", "mouse"} THEN reload_type
                 ELSE "all"
        IN /\ EmitAll(<<[command |-> "device_release",
                         payload |-> [NoPayload EXCEPT !.release_type = t]],
                        Event("device_close"), Event("device_open")>>,
                      MaxEmitted)
           /\ ReleaseBuffers(t)
           /\ port' = p
           /\ UNCHANGED <<connection, open, last, executing, started,
                          executed, replies, mutex_locked, handed, kb_last,
                          mouse_capture, relative_mode, mouse_last_pos,
                          mouse_need_report, mouse_last, view, app_vars>>

\* controller_device_disconnect() then controller_device_connect(), and
\* the two the other way round.
Reconnect_reversed == <<Event("device_open"), Event("device_close")>>

Reconnect == <<Event("device_close"), Event("device_open")>>

\* controller_command_reply(command, status, data), run by the main thread
\* for the replies in the order the worker emitted them.
controller_command_reply(cap) ==
    /\ handled < Len(replies)
    /\ handled' = handled + 1
    /\ LET reply == replies[handled + 1]
       IN CASE reply.command = "device_open" /\ reply.status = 0 ->
                 /\ controller' = TRUE
                 /\ EmitAll(<<Event("keyboard_read")>>, cap)
                 /\ UNCHANGED <<port, indicator, refresh>>
            [] reply.command = "device_open" /\ reply.status # 0 ->
                 /\ controller' = FALSE
                 /\ UNCHANGED <<port, queue, submitted, indicator, refresh>>
            [] reply.command = "device_close" ->
                 /\ controller' = FALSE
                 /\ UNCHANGED <<port, queue, submitted, indicator, refresh>>
            [] reply.command = "device_check" /\ reply.status # 0 ->
                 \E p \in Ports :
                     /\ EmitAll(Reconnect, cap)
                     /\ port' = p
                     /\ UNCHANGED <<indicator, refresh, controller>>
            [] reply.command = "keyboard_read" /\ reply.status = 0 ->
                 \E data \in IndicatorReplies :
                     /\ indicator' = from_dict(indicator, data)
                     /\ refresh' = [refresh EXCEPT
                                       !.touched = @ \/ reply.id # refresh.id,
                                       !.data = data]
                     /\ UNCHANGED <<port, queue, submitted, controller>>
            [] OTHER ->
                 UNCHANGED <<port, queue, submitted, indicator, refresh,
                             controller>>
    /\ UNCHANGED <<connection, open, last, executing, started, executed,
                   replies, mutex_locked, handed, kb_vars, mouse_vars, view,
                   typed, status_buffer, chip>>

NextReply ==
    \/ controller_device_connect
    \/ update_keyboard_indicator_buffer(MaxCommands)
    \/ sync_keyboard_indicator_buffer
    \/ WorkerDispatch
    \/ command_send
    \/ controller_command_reply(MaxCommands)

SpecReply == Init /\ [][NextReply]_vars

\* The reply the main thread handles next, when it is the answer to a
\* keyboard_read, has put the locks the remote keyboard answered with in
\* the indicator cache.
ChipAnswered ==
    LET reply == replies[handled + 1]
    IN (reply.command = "keyboard_read" /\ reply.status = 0)
          => \E i \in 1..Len(chip.answers) :
                 /\ chip.answers[i].id = reply.id
                 /\ indicator' = chip.answers[i].data

\* Lock keys tapped while the worker reads the locks of the remote
\* keyboard, which answers with the locks it has.
NextConverge ==
    \/ controller_device_connect
    \/ update_keyboard_indicator_buffer(MaxCommands + 1)
    \/ sync_keyboard_indicator_buffer
    \/ WorkerDispatch
    \/ command_send
    \/ controller_command_reply(MaxCommands + 1) /\ ChipAnswered

SpecConverge == Init /\ [][NextConverge]_vars

\* The device_check timer, the worker and the replies.  No reply waits
\* for room: a device_check can bring a device_close, a device_open and a
\* keyboard_read after it.
NextConnect ==
    \/ controller_device_check_connection
    \/ WorkerDispatch
    \/ command_send
    \/ controller_command_reply(4 * MaxCommands)

SpecConnect == Init /\ [][NextConnect]_vars

\* The timer fires every second, the worker thread's event loop runs the
\* queued commands and the main thread's event loop runs the queued
\* replies.
LiveConnect ==
    /\ SpecConnect
    /\ WF_vars(controller_device_check_connection)
    /\ WF_vars(WorkerDispatch)
    /\ WF_vars(command_send)
    /\ WF_vars(controller_command_reply(4 * MaxCommands))

NextReload ==
    \/ video_device_connect({<<4, 3>>})
    \/ mouse_capture_action
    \/ mouseMoveEvent({<<1, 1>>}, {})
    \/ keyPressEvent
    \/ controller_device_check_connection
    \/ controller_device_reload({"all", "keyboard"})
    \/ WorkerDispatch
    \/ command_send
    \/ controller_command_reply(MaxEmitted)

SpecReload == Init /\ [][NextReload]_vars




\* ============================================================== claims

Count(q, x) == Cardinality({i \in 1..Len(q) : q[i] = x})

ReplyIds == [i \in 1..Len(replies) |-> replies[i].id]

Pending(id) ==
    \/ \E i \in 1..Len(queue) : queue[i].id = id
    \/ \E e \in executing : e.id = id

HandleEvents == {"open", "close", "is_open", "write", "read"}

TransportCalls == {"write", "read"}

\* The lock is held at position i of a trace: a "lock" precedes it with no
\* "unlock" in between.
HeldAt(trace, i) ==
    \E j \in 1..(i - 1) :
        /\ trace[j] = "lock"
        /\ \A k \in (j + 1)..(i - 1) : trace[k] # "unlock"

Touches(trace) == \E i \in 1..Len(trace) : trace[i] \in TransportCalls

ProtocolOps ==
    {"mouse_send_data", "keyboard_send_data", "keyboard_receive_status",
     "product_info", "reset_controller", "release"}

\* What each protocol operation returns from its guard.
FailureResult(op) ==
    CASE op = "keyboard_receive_status" -> "(False, {})"
      [] op = "product_info" -> ""
      [] op = "release" -> "None"
      [] OTHER -> "False"

\* C1: at any moment at most one command is being executed by
\* command_send, whatever the main thread has queued.
C1_OneExecutionAtATime == Cardinality(executing) <= 1

\* A command is being executed while another one waits in the queue.
C1_Witness == Cardinality(executing) = 1 /\ Len(queue) >= 1

\* C2: every submitted command is executed at most once and replied to at
\* most once, its reply carries the submitted name, and a command that is
\* neither queued nor being executed has been executed exactly once and
\* has exactly one reply.
C2_ExactlyOneReply ==
    \A id \in 1..Len(submitted) :
        /\ Count(executed, id) <= 1
        /\ Count(ReplyIds, id) <= 1
        /\ \A i \in 1..Len(replies) :
               replies[i].id = id => replies[i].command = submitted[id]
        /\ ~Pending(id) => Count(executed, id) = 1 /\ Count(ReplyIds, id) = 1

\* All submitted commands are done, one of them replied with a failure
\* status after the transport raised and one with success.
C2_Witness ==
    /\ Len(submitted) = MaxCommands
    /\ Len(replies) = MaxCommands
    /\ last.raised
    /\ replies[Len(replies)].status # 0
    /\ \E i \in 1..Len(replies) : replies[i].status = 0

\* C3: commands start, run and are replied to in submission order, and a
\* command starts only when every earlier one has its reply.
C3_Fifo ==
    /\ \A i \in 1..Len(started) : started[i] = i
    /\ \A i \in 1..Len(executed) : executed[i] = i
    /\ \A i \in 1..Len(replies) : replies[i].id = i
    /\ Len(started) > 0 => Len(replies) >= Len(started) - 1

\* One command has its reply, a later one is being executed and another
\* waits in the queue behind it.
C3_Witness ==
    /\ Len(replies) >= 1
    /\ executing # {}
    /\ Len(queue) >= 1

\* C4: a protocol operation called while the connection is None or closed
\* makes no transport call, raises nothing and returns its failure value.
C4_FailFast ==
    (last.op \in ProtocolOps /\ ~last.pre_available)
        => /\ ~Touches(last.trace)
           /\ ~last.raised
           /\ last.ret = FailureResult(last.op)

\* A send was called while the connection was None and returned False.
C4_Witness ==
    /\ last.op \in {"mouse_send_data", "keyboard_send_data"}
    /\ ~last.pre_available
    /\ last.ret = "False"

\* C5 (as claimed): every handle event of every controller operation
\* happens while the connection lock is held.
C5_AllAccessUnderLock ==
    \A i \in 1..Len(last.trace) :
        last.trace[i] \in HandleEvents => HeldAt(last.trace, i)

\* C6 (as claimed): create_connection called with an empty port, or whose
\* Serial(...) raises, returns False and leaves connection = None.
C6_CreateFailsClosed ==
    (last.op = "create_connection" /\ (last.pre_port = "" \/ last.failed))
        => last.ret = "False" /\ connection = None

\* C7: no Serial object other than self.connection is open, and a
\* create_connection on an open controller closes before it opens.
C7_OneLiveConnection ==
    /\ open \subseteq {connection}
    /\ Cardinality(open) <= 1
    /\ (last.op \in {"create_connection", "reset_connection"}
            /\ last.pre_connection # None)
        => \A i \in 1..Len(last.trace) :
               last.trace[i] = "open"
                   => \E j \in 1..(i - 1) : last.trace[j] = "close"

\* create_connection was called while a connection was open and opened a
\* new one.
C7_Witness ==
    /\ last.op = "create_connection"
    /\ last.pre_available
    /\ connection # None
    /\ connection # last.pre_connection

\* C8 (as claimed): after an operation whose transport call failed, the
\* connection is None.
C8_TornDownOnFailure == last.failed => connection = None

\* C9 (as claimed): no controller operation ends with an exception.
C9_NothingRaises == ~last.raised


\* C10: the key buffer never holds more than 6 regular keys, no emitted
\* snapshot carries more, and a press of a further regular key while 6 are
\* held changes neither the key list nor the modifier mask.
C10_KeyCap ==
    [][/\ Len(kb_keys') <= KeyCap
       /\ kb_last'.snapshot_len <= KeyCap
       /\ (/\ kb_last'.op = "PRESS"
           /\ ~kb_last'.modifier
           /\ ~kb_last'.held
           /\ kb_last'.full)
          => kb_keys' = kb_keys /\ kb_mods' = kb_mods]_vars

\* A seventh regular key was pressed while six were held.
C10_Witness ==
    /\ kb_last.op = "PRESS"
    /\ ~kb_last.modifier
    /\ ~kb_last.held
    /\ kb_last.full
    /\ Len(kb_keys) = KeyCap

\* C11: a press of a key the buffer already holds, regular or modifier,
\* leaves the ordered key list and the modifier mask as they were, and the
\* key list never holds a code twice.
C11_PressIdempotent ==
    [][/\ Cardinality(Range(kb_keys')) = Len(kb_keys')
       /\ (kb_last'.op = "PRESS" /\ kb_last'.held)
          => kb_keys' = kb_keys /\ kb_mods' = kb_mods]_vars

\* A regular key was pressed again while it and another key were held.
C11_Witness ==
    /\ kb_last.op = "PRESS"
    /\ kb_last.held
    /\ ~kb_last.modifier
    /\ Len(kb_keys) >= 2

\* C12: for every code, key_state after key_release reports released, and
\* key_release of a code that is not pressed leaves the buffer as it was;
\* a release event of a held code takes exactly one code out of the buffer
\* and keeps the others in order, a release event of a code not held
\* changes nothing.
C12_Release ==
    /\ [](\A code \in KeyCodes :
              /\ key_state(key_release(KeyBuffer, code), code) = "RELEASE"
              /\ key_state(KeyBuffer, code) = "RELEASE"
                     => key_release(KeyBuffer, code) = KeyBuffer)
    /\ [][kb_last'.op = "RELEASE"
              => CASE ~kb_last'.held ->
                         kb_keys' = kb_keys /\ kb_mods' = kb_mods
                   [] kb_last'.held /\ kb_last'.modifier ->
                         /\ kb_keys' = kb_keys
                         /\ \E code \in kb_mods : kb_mods' = kb_mods \ {code}
                   [] OTHER ->
                         /\ kb_mods' = kb_mods
                         /\ \E i \in 1..Len(kb_keys) :
                                kb_keys' = RemoveAt(kb_keys, i)]_vars

\* A held regular key was released while another key stays held.
C12_Witness ==
    /\ kb_last.op = "RELEASE"
    /\ kb_last.held
    /\ ~kb_last.modifier
    /\ Len(kb_keys) >= 1

\* C13: the buffer command_send hands to device_event is the payload the
\* command was emitted with, whatever the main thread has done to the key
\* buffer and the mouse buffer since, and the execution of a command
\* leaves the key buffer and the mouse buffer as they were.
C13_Snapshot ==
    /\ [](handed.id # 0 => handed.buffer = handed.enqueued)
    /\ [][executed' # executed
              => kb_keys' = kb_keys /\ kb_mods' = kb_mods /\ mouse' = mouse]_vars

\* A keyboard_write was executed after the key buffer had changed from
\* what the command was emitted with.
C13_Witness ==
    /\ handed.id # 0
    /\ submitted[handed.id] = "keyboard_write"
    /\ handed.enqueued.keys # kb_keys
    /\ handed.buffer.keys # <<>>

\* C14 (as claimed): in relative mode the pending delta in the mouse
\* buffer is the sum of the motion sampled since the last timer flush.
C14_PendingIsSumSinceFlush ==
    relative_mode
        => /\ mouse.x = Frac(mouse_last.sampled[1], 1)
           /\ mouse.y = Frac(mouse_last.sampled[2], 1)

InUnit(f) == 0 <= f[1] /\ f[1] <= f[2]

\* C15: the point an absolute-mode move stores lies in [0, 1] on both
\* axes, and on an axis where the pointer is before or after the content
\* area it is exactly 0 or exactly 1.
C15_AbsoluteClamped ==
    mouse_last.op = "move_absolute"
        => /\ InUnit(mouse.x)
           /\ InUnit(mouse.y)
           /\ mouse_last.x_side = "before" => mouse.x = Zero
           /\ mouse_last.x_side = "after" => mouse.x = One
           /\ mouse_last.y_side = "before" => mouse.y = Zero
           /\ mouse_last.y_side = "after" => mouse.y = One

\* With the picture letterboxed left and right and the cursor correction
\* on, the pointer was left of the picture and strictly inside it
\* vertically.
C15_Witness ==
    /\ mouse_last.op = "move_absolute"
    /\ XDiff(view) # Zero
    /\ view.correction_cursor
    /\ mouse_last.x_side = "before"
    /\ mouse.x = Zero
    /\ mouse_last.y_side = "in"
    /\ 0 < mouse.y[1]
    /\ mouse.y[1] < mouse.y[2]

\* C16: the wheel state of the mouse buffer is neutral after every
\* handler; a report carries a non-neutral wheel only when a wheel event
\* emits it, each wheel event emits one report, carrying the state the
\* event set, and every other report carries a neutral wheel.
C16_WheelOneShot ==
    /\ [](mouse.wheel = "STOP")
    /\ [][Len(submitted') > Len(submitted)
              => /\ Len(submitted') = Len(submitted) + 1
                 /\ queue'[Len(queue')].payload.wheel
                        = (IF mouse_last'.op = "wheel" THEN mouse_last'.wheel
                           ELSE "STOP")
                 /\ mouse'.wheel = "STOP"]_vars

\* A wheel event emitted a report carrying DOWN and the report timer
\* emitted a later one carrying a neutral wheel.
C16_Witness ==
    /\ mouse_last.op = "timer"
    /\ Len(queue) >= 2
    /\ queue[Len(queue) - 1].payload.wheel = "DOWN"
    /\ queue[Len(queue)].payload.wheel = "STOP"

\* The keys a keyboard_write payload reports as down.
Down(payload) ==
    (Range(payload.keys) \ payload.released) \cup Range(payload.function_keys)

\* C17: keyboard_send_string emits one keyboard_write per key event; with
\* caps_lock cached on it starts with a press/release of caps lock and
\* leaves the cache off; after that each character that is ASCII and has a
\* key gives one press then one release of its key, in input order, between
\* a shift press and a shift release exactly when the character is upper
\* case or a shift symbol, and nothing else is emitted.  "Hello!" with
\* caps_lock cached on gives 1 + 6 press/release pairs, shift around 'H'
\* and '!' only.
C17_StringExpansion ==
    /\ [](LET shift == key_name_to_hid_code_get("shift")
              caps == key_name_to_hid_code_get("caps_lock")
              fix == IF typed.caps_lock THEN 2 ELSE 0
              S == SubSeq(typed.strokes, fix + 1, Len(typed.strokes))
              M == SelectSeq(typed.data,
                             LAMBDA ch : isascii(ch)
                                 /\ key_name_to_hid_code_get(ch) # 0)
              Wrapped(ch) == isupper(ch) \/ ch \in SHIFT_SYMBOL
              Shifted(j) == Cardinality({i \in 1..j : Wrapped(M[i])})
              Pos(j) == 2 * (j - 1) + 2 * Shifted(j - 1)
                        + (IF Wrapped(M[j]) THEN 2 ELSE 1)
          IN /\ typed.caps_lock =>
                   SubSeq(typed.strokes, 1, 2)
                       = << <<caps, "PRESS">>, <<caps, "RELEASE">> >>
             /\ Len(S) = 2 * Len(M) + 2 * Shifted(Len(M))
             /\ \A j \in 1..Len(M) :
                   LET key == key_name_to_hid_code_get(M[j])
                   IN /\ S[Pos(j)] = <<key, "PRESS">>
                      /\ S[Pos(j) + 1] = <<key, "RELEASE">>
                      /\ Wrapped(M[j]) =>
                            /\ S[Pos(j) - 1] = <<shift, "PRESS">>
                            /\ S[Pos(j) + 2] = <<shift, "RELEASE">>
             /\ typed.data = Hello /\ typed.caps_lock =>
                   typed.strokes =
                       << <<caps, "PRESS">>, <<caps, "RELEASE">>,
                          <<shift, "PRESS">>, <<11, "PRESS">>,
                          <<11, "RELEASE">>, <<shift, "RELEASE">>,
                          <<8, "PRESS">>, <<8, "RELEASE">>,
                          <<15, "PRESS">>, <<15, "RELEASE">>,
                          <<15, "PRESS">>, <<15, "RELEASE">>,
                          <<18, "PRESS">>, <<18, "RELEASE">>,
                          <<shift, "PRESS">>, <<30, "PRESS">>,
                          <<30, "RELEASE">>, <<shift, "RELEASE">> >>
             /\ \A i \in 1..Len(typed.strokes) :
                   LET id == typed.first + i - 1
                   IN /\ id <= Len(submitted)
                      /\ submitted[id] = "keyboard_write"
                      /\ \A k \in 1..Len(queue) :
                            queue[k].id = id =>
                                (typed.strokes[i][1] \in Down(queue[k].payload)
                                    <=> typed.strokes[i][2] = "PRESS"))
    /\ [][typed' # typed =>
             /\ ~indicator'.caps_lock
             /\ Len(submitted') = Len(submitted) + Len(typed'.strokes)
             /\ typed'.first = Len(submitted) + 1]_vars

\* "Hello!" was sent with caps_lock cached on: 18 key events are queued and
\* the cache has caps_lock off.
C17_Witness ==
    /\ typed.data = Hello
    /\ typed.caps_lock
    /\ Len(typed.strokes) = 18
    /\ ~indicator.caps_lock
    /\ Len(queue) = typed.first + 17
    /\ queue[typed.first + 3].payload.keys = <<11>>
    /\ queue[typed.first + 3].payload.function_keys = <<225>>

\* The commands emitted by a step, oldest first.
Emitted == SubSeq(submitted', Len(submitted) + 1, Len(submitted'))

\* C18: the handler that emits device_release("all"), with device_close
\* and device_open after it, leaves the key buffer and the mouse buffer
\* cleared: no keys, no modifiers, no buttons, no wheel, no pending point.
\* Neither the execution of a command nor the handling of a reply, an
\* unhealthy device_check's included, writes to either buffer.
C18_ReloadClears ==
    /\ [][(\E k \in 1..Len(queue') :
               /\ queue'[k].id > Len(submitted)
               /\ queue'[k].command = "device_release"
               /\ queue'[k].payload.release_type = "all")
            => /\ Emitted = <<"device_release", "device_close", "device_open">>
               /\ kb_keys' = <<>>
               /\ kb_mods' = {}
               /\ mouse'.buttons = {}
               /\ mouse'.wheel = "STOP"
               /\ mouse'.x = Zero
               /\ mouse'.y = Zero]_vars
    /\ [][started' # started \/ executed' # executed \/ handled' # handled
            => kb_keys' = kb_keys /\ kb_mods' = kb_mods /\ mouse' = mouse]_vars

\* An unhealthy device_check reply was handled (its device_close and
\* device_open follow it), then a key held and a pointer position set were
\* cleared by a reload whose device_open has been executed.
C18_Witness ==
    /\ \E i \in 1..handled, j \in 1..Len(submitted) :
          /\ replies[i].command = "device_check"
          /\ replies[i].status # 0
          /\ j > replies[i].id + 2
          /\ j + 2 <= Len(submitted)
          /\ SubSeq(submitted, j - 2, j + 2)
                 = <<"device_close", "device_open", "device_release",
                     "device_close", "device_open">>
          /\ j + 2 \in Range(executed)
    /\ kb_last.op = "PRESS"
    /\ kb_last.snapshot_len = 1
    /\ mouse_last.op = "move_absolute"
    /\ kb_keys = <<>>
    /\ kb_mods = {}
    /\ mouse = NoMouse

\* C19 (as claimed): a refresh enqueues one keyboard_read; when its reply
\* is handled and nothing else wrote the cache since the request, a success
\* leaves the cache with the returned values and a failure leaves it with
\* the values it had before the refresh was requested.
C19_FailureKeepsCache ==
    /\ [][refresh'.id # refresh.id
            => Emitted = <<"keyboard_read">> /\ refresh'.id = Len(submitted')
       ]_vars
    /\ [][(/\ handled' = handled + 1
           /\ replies[handled'].command = "keyboard_read"
           /\ replies[handled'].id = refresh.id
           /\ ~refresh.touched)
            => IF replies[handled'].status = 0
               THEN /\ indicator'.num_lock = refresh'.data.num_lock
                    /\ indicator'.caps_lock = refresh'.data.caps_lock
                    /\ indicator'.scroll_lock = refresh'.data.scroll_lock
               ELSE indicator' = refresh.before]_vars

\* The names of the command table.
ClosedSet ==
    {"device_open", "device_close", "device_check", "device_release",
     "device_reset", "keyboard_read", "keyboard_write",
     "mouse_relative_write", "mouse_absolute_write"}

\* C20: the execution of a command whose name is outside the command set
\* makes no call on the controller or the transport, raises nothing, emits
\* a reply with a non-zero status, leaves port, connection and the open
\* handles as they were, and leaves the worker free for the next command.
C20_UnknownCommand ==
    [][(/\ Len(executed') = Len(executed) + 1
        /\ submitted[executed'[Len(executed')]] \notin ClosedSet)
         => /\ last'.trace = <<>>
            /\ last'.sent = NoSent
            /\ ~last'.raised
            /\ Len(replies') = Len(replies) + 1
            /\ replies'[Len(replies')].id = executed'[Len(executed')]
            /\ replies'[Len(replies')].status # 0
            /\ port' = port
            /\ connection' = connection
            /\ open' = open
            /\ executing' = {}
            /\ ~mutex_locked']_vars

\* With the connection open an unknown command was executed and failed,
\* the connection stayed open and the next command succeeded.
C20_Witness ==
    /\ Len(replies) = 3
    /\ replies[1].command = "device_open" /\ replies[1].status = 0
    /\ replies[2].command \notin ClosedSet /\ replies[2].status # 0
    /\ replies[3].command = "device_check" /\ replies[3].status = 0
    /\ connection # None

\* C21: keyboard_send_data on an open connection passes the transport at
\* most 6 regular keys and at most 8 function keys: the first 6 (first 8)
\* of the lists it was given, in the given order, the whole list when it is
\* no longer than that; it returns True when the transport accepts the
\* write.
C21_Truncates ==
    (last.op = "keyboard_send_data" /\ last.pre_available)
        => /\ Len(last.sent.keys) <= 6
           /\ Len(last.sent.function_keys) <= 8
           /\ Len(last.sent.keys)
                  = (IF Len(last.given.keys) > 6 THEN 6
                     ELSE Len(last.given.keys))
           /\ Len(last.sent.function_keys)
                  = (IF Len(last.given.function_keys) > 8 THEN 8
                     ELSE Len(last.given.function_keys))
           /\ \A i \in 1..Len(last.sent.keys) :
                 last.sent.keys[i] = last.given.keys[i]
           /\ \A i \in 1..Len(last.sent.function_keys) :
                 last.sent.function_keys[i] = last.given.function_keys[i]
           /\ ~last.failed => last.ret = "True"

\* 7 regular keys and 9 function keys were given; 6 and 8 were sent and
\* the call returned True.
C21_Witness ==
    /\ last.op = "keyboard_send_data"
    /\ Len(last.given.keys) = 7
    /\ Len(last.given.function_keys) = 9
    /\ last.sent.keys = <<1, 2, 3, 4, 5, 6>>
    /\ Len(last.sent.function_keys) = 8
    /\ last.ret = "True"

\* C22 (as claimed): while a command is queued or being executed, the
\* controller's connection state (port, handle, open handles) is changed
\* only by the worker's execution of a command, never by a step of the
\* main thread.
C22_OnlyWorkerWritesConnectionState ==
    [][(queue # <<>> \/ executing # {})
         /\ (port' # port \/ connection' # connection \/ open' # open)
         => executed' # executed]_vars

\* C23: a press or release of a modifier key leaves the ordered list of
\* regular keys as it was and changes at most that key's bit of the mask;
\* a press or release of a regular key leaves the mask as it was, and a
\* regular key that is not held is taken whenever fewer than 6 regular
\* keys are held, whatever the mask.  The mask holds up to 8 modifiers
\* beside 6 regular keys.
C23_ModifiersApart ==
    /\ [](Len(kb_keys) <= 6 /\ kb_mods \subseteq 224..231)
    /\ [][kb_last'.op \in {"PRESS", "RELEASE"} =>
            IF kb_last'.modifier
            THEN /\ kb_keys' = kb_keys
                 /\ \E m \in 224..231 :
                       /\ kb_last'.held <=> m \in kb_mods
                       /\ kb_mods' = (IF kb_last'.op = "PRESS"
                                      THEN kb_mods \cup {m}
                                      ELSE kb_mods \ {m})
            ELSE /\ kb_mods' = kb_mods
                 /\ (kb_last'.op = "PRESS" /\ ~kb_last'.held
                        /\ Len(kb_keys) < 6)
                      => Len(kb_keys') = Len(kb_keys) + 1]_vars

\* The eighth modifier was pressed while six regular keys were held.
C23_Witness ==
    /\ kb_last.op = "PRESS"
    /\ kb_last.modifier
    /\ ~kb_last.held
    /\ kb_mods = 224..231
    /\ Len(kb_keys) = 6

\* C24: shortcut_key_send(keys) has tap semantics: it enqueues a press for
\* every mapped key of the list and then a release for each of them, so
\* that when it completes neither the key buffer nor the last enqueued
\* keyboard_write snapshot contains a key it pressed.
C24_TapSemantics ==
    [][typed' # typed /\ typed'.first = Len(submitted) + 1 =>
          LET codes == key_code_list(typed'.data)
              n == Len(codes)
          IN /\ Len(queue') = Len(queue) + 2 * n
             /\ \A i \in 1..n :
                   /\ codes[i] \in Down(queue'[Len(queue) + i].payload)
                   /\ codes[i] \notin Down(queue'[Len(queue) + n + i].payload)
                   /\ codes[i] \notin Down(queue'[Len(queue')].payload)
                   /\ \A k \in 1..Len(kb_keys') : kb_keys'[k] # codes[i]
                   /\ \A k \in 1..Len(kb_mods') : kb_mods'[k] # codes[i]]_vars

C26_FirstSampleSeeds ==
    [][relative_mode /\ ~mouse_last.seeded /\ mouse_last'.seeded =>
          /\ mouse'.x = Zero
          /\ mouse'.y = Zero
          /\ mouse_last_pos' = MiddlePos]_vars

\* C27: after every motion sample of relative mode the reference point is
\* within 25 px of the middle of the window on both axes: when the sample
\* met the cursor more than 25 px from the middle on either axis, the
\* cursor was put back to the middle and the reference is the middle.
C27_Recentered ==
    /\ mouse_last_pos # NoPos =>
          /\ Abs(mouse_last_pos[1] - MiddlePos[1]) <= RecenterThreshold
          /\ Abs(mouse_last_pos[2] - MiddlePos[2]) <= RecenterThreshold
    /\ mouse_last.op = "move_relative" =>
          /\ mouse_last_pos # NoPos
          /\ (\/ Abs(mouse_last.pos[1] - MiddlePos[1]) > RecenterThreshold
              \/ Abs(mouse_last.pos[2] - MiddlePos[2]) > RecenterThreshold)
                 => /\ mouse_last.cursor = MiddlePos
                    /\ mouse_last_pos = MiddlePos

\* A sample with the cursor 40 px above the middle, after one at the
\* threshold: the motion of both is pending and the reference is the middle.
C27_Witness ==
    /\ mouse_last.op = "move_relative"
    /\ mouse_last.pos = <<3, -40>>
    /\ mouse.x = <<3, 1>>
    /\ mouse.y = <<-40, 1>>
    /\ mouse_last.cursor = MiddlePos
    /\ mouse_last_pos = MiddlePos

\* C28: a tick of the report timer enqueues one mouse write, relative or
\* absolute as the mode is, carrying the mouse buffer, exactly when motion
\* was sampled since the tick before; after every tick the flag is down
\* and, in relative mode after a report, the pending delta is zero; a tick
\* with nothing sampled enqueues nothing and leaves the buffer alone.
C28_Flush ==
    /\ [](mouse_last.op = "timer" => ~mouse_need_report)
    /\ [](mouse_last.op \in {"move_absolute", "move_relative"}
             => mouse_need_report)
    /\ [][mouse_last'.op = "timer" /\ mouse_last.op # "timer" =>
             IF mouse_need_report
             THEN /\ Len(queue') = Len(queue) + 1
                  /\ SubSeq(queue', 1, Len(queue)) = queue
                  /\ queue'[Len(queue')].command =
                         (IF relative_mode THEN "mouse_relative_write"
                          ELSE "mouse_absolute_write")
                  /\ queue'[Len(queue')].payload.x = mouse.x
                  /\ queue'[Len(queue')].payload.y = mouse.y
                  /\ queue'[Len(queue')].payload.buttons = mouse.buttons
                  /\ relative_mode => mouse'.x = Zero /\ mouse'.y = Zero
                  /\ ~relative_mode => mouse' = mouse
             ELSE /\ queue' = queue
                  /\ submitted' = submitted
                  /\ mouse' = mouse]_vars

\* The timer reported a motion of relative mode after a report of absolute
\* mode.
C28_Witness ==
    /\ mouse_last.op = "timer"
    /\ Len(queue) = 2
    /\ queue[1].command = "mouse_absolute_write"
    /\ queue[2].command = "mouse_relative_write"
    /\ queue[2].payload.x = <<2, 1>>
    /\ queue[2].payload.y = <<3, 1>>
    /\ mouse.x = Zero
    /\ relative_mode

\* C29: keyboard_send_string passes over every character that is not ASCII
\* and every character without a key, and goes on: the keys it presses,
\* shift apart, are the keys of the remaining characters in the order of
\* the text, each pressed once and released, no key event is made for a
\* skipped character, and every key event is emitted.
C29_SkipsUntypable ==
    /\ [](LET fix == IF typed.caps_lock THEN 2 ELSE 0
              S == SubSeq(typed.strokes, fix + 1, Len(typed.strokes))
              IsKeyPress(stroke) == stroke[2] = "PRESS" /\ stroke[1] # 225
              IsKeyRelease(stroke) == stroke[2] = "RELEASE" /\ stroke[1] # 225
              Typable(character) ==
                  /\ character \in AsciiCharacters
                  /\ character \in DOMAIN KEY_NAME_TO_HID_CODE
              Kept == SelectSeq(typed.data, Typable)
              Presses == SelectSeq(S, IsKeyPress)
              Releases == SelectSeq(S, IsKeyRelease)
          IN /\ Len(Presses) = Len(Kept)
             /\ Releases = [i \in 1..Len(Presses) |->
                               <<Presses[i][1], "RELEASE">>]
             /\ \A i \in 1..Len(Kept) :
                   Presses[i][1] = KEY_NAME_TO_HID_CODE[Kept[i]]
             /\ \A i \in 1..Len(S) : S[i][1] # 0
             /\ Kept = <<>> => S = <<>>)
    /\ [][typed' # typed =>
             /\ Len(queue') = Len(queue) + Len(typed'.strokes)
             /\ \A i \in 1..Len(typed'.strokes) :
                   /\ queue'[Len(queue) + i].command = "keyboard_write"
                   /\ typed'.strokes[i][1]
                          \in Down(queue'[Len(queue) + i].payload)
                      <=> typed'.strokes[i][2] = "PRESS"]_vars

\* A text of five characters, two of them skipped, typed while caps lock
\* was off: a, shift with H, e.
C29_Witness ==
    /\ typed.data = <<"a", "U+00E9", "H", "U+0007", "e">>
    /\ ~typed.caps_lock
    /\ typed.strokes = << <<4, "PRESS">>, <<4, "RELEASE">>,
                          <<225, "PRESS">>, <<11, "PRESS">>,
                          <<11, "RELEASE">>, <<225, "RELEASE">>,
                          <<8, "PRESS">>, <<8, "RELEASE">> >>
    /\ Len(queue) = typed.first + 7
    /\ queue[Len(queue) - 1].payload.keys = <<8>>

C31_ReconnectClearsKeys ==
    [][(/\ Len(Emitted) >= 2
        /\ SubSeq(Emitted, Len(Emitted) - 1, Len(Emitted))
               = <<"device_close", "device_open">>)
          => kb_keys' = <<>> /\ kb_mods' = {}]_vars

\* C32: a key event whose scancode has no HID code is dropped and reporting
\* goes on: the event leaves the key buffer as it was and emits nothing,
\* code 0 is never in the buffer nor in a report, and the first report
\* after a dropped event still carries every key that was held, the key of
\* the reported event apart.
C32_UnknownKeyDropped ==
    /\ [](/\ 0 \notin Range(kb_keys)
          /\ \A i \in 1..Len(queue) : 0 \notin Range(queue[i].payload.keys))
    /\ [][kb_last'.op = "UNKNOWN" =>
             /\ kb_keys' = kb_keys
             /\ kb_mods' = kb_mods
             /\ queue' = queue
             /\ submitted' = submitted]_vars
    /\ [][kb_last.op = "UNKNOWN" /\ kb_last'.op \in {"PRESS", "RELEASE"} =>
             /\ Len(queue') = Len(queue) + 1
             /\ queue'[Len(queue')].command = "keyboard_write"
             /\ \E code \in {SCANCODE_TO_HID_CODE[scancode] :
                              scancode \in DOMAIN SCANCODE_TO_HID_CODE} :
                   /\ Range(kb_keys) \ {code}
                          \subseteq Down(queue'[Len(queue')].payload)
                   /\ Range(kb_keys') \ {code} = Range(kb_keys) \ {code}
                   /\ (code \in Range(kb_keys')
                          <=> kb_last'.op = "PRESS")]_vars

\* A and E are held and reported, and the last key event had an unknown
\* scancode.
C32_Witness ==
    /\ kb_last.op = "UNKNOWN"
    /\ kb_keys = <<4, 8>>
    /\ Len(queue) = 2
    /\ queue[2].payload.keys = <<4, 8>>
    /\ Down(queue[1].payload) = {4}

\* C33: controller_device_release emits one device_release, of type
\* keyboard, mouse or all.  With keyboard the key buffer is cleared and the
\* mouse buffer left as it was, with mouse the mouse buffer is cleared and
\* the key buffer left as it was, with all both are cleared.
C33_ReleaseByType ==
    [][Emitted = <<"device_release">> =>
          LET t == queue'[Len(queue')].payload.release_type
          IN /\ Len(queue') = Len(queue) + 1
             /\ queue'[Len(queue')].command = "device_release"
             /\ t \in {"keyboard", "mouse", "all"}
             /\ t = "keyboard" =>
                   /\ kb_keys' = <<>> /\ kb_mods' = {}
                   /\ mouse' = mouse
             /\ t = "mouse" =>
                   /\ mouse' = NoMouse
                   /\ kb_keys' = kb_keys /\ kb_mods' = kb_mods
             /\ t = "all" =>
                   /\ kb_keys' = <<>> /\ kb_mods' = {}
                   /\ mouse' = NoMouse]_vars

\* With a key held and a button held on a pointer position, the mouse was
\* released: the key is still held, the mouse buffer is as it was made.
C33_Witness ==
    /\ Len(queue) = 3
    /\ queue[3].command = "device_release"
    /\ queue[3].payload.release_type = "mouse"
    /\ queue[1].command = "keyboard_write"
    /\ queue[2].payload.buttons # {}
    /\ kb_keys = <<4>>
    /\ mouse = NoMouse

\* C34 (as claimed): in relative mode no accumulated motion is discarded
\* unsent.  A step other than a motion sample that clears a pending delta
\* enqueues a mouse_relative_write that carries this delta, also when the
\* step is a button press or release.
C34_NoMotionLost ==
    [][(/\ relative_mode
        /\ mouse_last'.op # "move_relative"
        /\ mouse.x[1] # 0 \/ mouse.y[1] # 0
        /\ mouse'.x[1] = 0 /\ mouse'.y[1] = 0)
          => /\ Len(queue') = Len(queue) + 1
             /\ queue'[Len(queue')].command = "mouse_relative_write"
             /\ queue'[Len(queue')].payload.x = mouse.x
             /\ queue'[Len(queue')].payload.y = mouse.y]_vars

\* C35 (as claimed): in relative mode a pending delta is reported at most
\* once.  When the last command enqueued is a mouse_relative_write that
\* carries a delta, and it was enqueued by the timer or by a wheel report
\* with no motion sampled since, the next mouse_relative_write enqueued
\* does not carry the same delta again.
C35_ReportedOnce ==
    [][(/\ mouse_last.op \in {"timer", "wheel"}
        /\ Len(queue) > 0
        /\ queue[Len(queue)].command = "mouse_relative_write"
        /\ \/ queue[Len(queue)].payload.x[1] # 0
           \/ queue[Len(queue)].payload.y[1] # 0
        /\ Len(queue') = Len(queue) + 1
        /\ queue'[Len(queue')].command = "mouse_relative_write")
          => \/ queue'[Len(queue')].payload.x # queue[Len(queue)].payload.x
             \/ queue'[Len(queue')].payload.y # queue[Len(queue)].payload.y]_vars

\* The key was forwarded: some enqueued keyboard_write has it down.
Forwarded(code) ==
    \E i \in 1..Len(queue) :
        /\ queue[i].command = "keyboard_write"
        /\ Down(queue[i].payload) \cap {code} # {}

\* C36 (as claimed): no key stays stuck.  When the user releases a key
\* whose press was forwarded in a keyboard_write, the key is absent from
\* the key buffer afterwards, whatever pause_keyboard and block_input are
\* at the release.
C36_NoStuckKey ==
    [][\A code \in TypedKeys :
          (/\ kb_last' # kb_last
           /\ kb_last'.op \in {"RELEASE", "ignored_RELEASE"}
           /\ Forwarded(code))
             => \A i \in 1..Len(kb_keys') : kb_keys'[i] # code]_vars

\* C37: while mouse_capture is off, or pause_mouse or block_input is on, a
\* mouse move, button press, button release or wheel event enqueues no
\* command and leaves the mouse buffer and mouse_need_report as they were.
C37_IgnoredMouse ==
    [][(/\ \/ ~mouse_capture
           \/ status_buffer.pause_mouse
           \/ status_buffer.block_input
        /\ mouse_last' # mouse_last
        /\ mouse_last'.op \in {"move_absolute", "move_relative", "PRESS",
                               "RELEASE", "wheel", "ignored_move",
                               "ignored_PRESS", "ignored_RELEASE",
                               "ignored_wheel"})
          => /\ queue' = queue
             /\ submitted' = submitted
             /\ mouse' = mouse
             /\ mouse_need_report' = mouse_need_report]_vars

\* With the mouse captured, a button held, the pointer moved and a report
\* due, the mouse was paused and a wheel event returned: one command
\* enqueued, by the press.
C37_Witness ==
    /\ mouse_capture
    /\ status_buffer.pause_mouse
    /\ mouse_last.op = "ignored_wheel"
    /\ mouse.buttons # {}
    /\ mouse_need_report
    /\ Len(queue) = 1

\* C38: a registered Ctrl+Alt hot key (F11, F12, or V with quick paste on)
\* is not forwarded as a key press: its handler enqueues no keyboard_write
\* with the key down, and ends with the key buffer empty and with an empty
\* keyboard_write as the last keyboard command enqueued, whatever
\* pause_keyboard and block_input are.
C38_HotKeyNotForwarded ==
    [][\A key \in HotKeys :
          (/\ kb_last'.op = "hotkey_" \o key
           /\ kb_last' # kb_last \/ queue' # queue)
             => /\ kb_keys' = <<>>
                /\ kb_mods' = {}
                /\ \A i \in (Len(queue) + 1)..Len(queue') :
                       HotKeyCode[key] \notin Down(queue'[i].payload)
                /\ \E k \in 1..Len(queue') :
                       /\ queue'[k].command = "keyboard_write"
                       /\ queue'[k].payload.keys = <<>>
                       /\ queue'[k].payload.function_keys = <<>>
                       /\ \A i \in (k + 1)..Len(queue') :
                              queue'[i].command \notin
                                  {"keyboard_write", "keyboard_read"}]_vars

\* With the keyboard paused after Ctrl, Alt and A were forwarded, the paste
\* hot key was handled with a text in the clipboard: the text was typed
\* between two empty keyboard_write commands and the key buffer is empty.
C38_Witness ==
    /\ kb_last.op = "hotkey_V"
    /\ status_buffer.pause_keyboard
    /\ Len(queue) = 7
    /\ Down(queue[3].payload) = {4, 224, 226}
    /\ Down(queue[4].payload) = {}
    /\ Down(queue[5].payload) = {4}
    /\ queue[7].payload.keys = <<>>
    /\ kb_keys = <<>>
    /\ kb_mods = {}

\* C40: block_input is on only inside keyboard_send_string: in every state
\* between two handlers it is off, also after a text with characters that
\* cannot be typed.
C40_BlockedOnlyWhileTyping == ~status_buffer.block_input

\* A text with a character that is not ASCII and one without a key was
\* sent, its one typable character pressed and released.
C40_Witness ==
    /\ typed.data = <<"U+00E9", "a", "U+0007">>
    /\ Len(typed.strokes) = 2
    /\ Len(queue) >= 2
    /\ ~status_buffer.block_input

\* C39 (as claimed): the indicator cache converges to the locks of the
\* remote keyboard.  When the controller is connected, no command has
\* failed, no command is queued or running and every reply has been
\* handled, the cache has the locks the remote keyboard has, however lock
\* key taps fell between a keyboard_read, its execution and its reply.
C39_CacheConverges ==
    (/\ controller
     /\ \A i \in 1..Len(replies) : replies[i].status = 0
     /\ queue = <<>>
     /\ executing = {}
     /\ handled = Len(replies))
        => indicator = chip.locks

====
